---- MODULE Spec2Model ----
(***************************************************************************)
(* Model of terminal::Screen (src/src/terminal/Screen.cpp): the cursor,    *)
(* the margins, the modes, the two grids and the operations the sequencer  *)
(* calls on them.  Coordinates are 1-based (row, column) as in Screen.cpp. *)
(* Every Screen method is an operator from a screen record to a screen     *)
(* record, so that a method calling other methods is a composition; the    *)
(* actions apply one method to the current state.  replyData is the        *)
(* sequence of replies the screen has handed to its event listener.        *)
(* inputQueue is the byte queue of terminal::InputGenerator, inputLog the  *)
(* record of what was generated for it, consumed from it and peeked last.  *)
(***************************************************************************)
EXTENDS Integers, Sequences, FiniteSets, TLC

VARIABLES size_, cursor_, wrapPending_, margin_, modes_, tabs_, grids_,
          screenType_, savedCursor_, savedPrimaryCursor_, currentHyperlink_,
          hyperlinks_, colorPalette_, windowTitle_, savedWindowTitles_,
          lastCursorPosition_, currentLine_, replyData, lastOp, steps, modeLog,
          inputQueue, inputLog

vars == <<size_, cursor_, wrapPending_, margin_, modes_, tabs_, grids_,
          screenType_, savedCursor_, savedPrimaryCursor_, currentHyperlink_,
          hyperlinks_, colorPalette_, windowTitle_, savedWindowTitles_,
          lastCursorPosition_, currentLine_, replyData, lastOp, steps, modeLog,
          inputQueue, inputLog>>

(***************************************************************************)
(* Bounds of the model.                                                    *)
(***************************************************************************)
MaxHistory == 2

(***************************************************************************)
(* Program constants.                                                      *)
(***************************************************************************)
GridTextReflowEnabled == TRUE
tabWidth_ == 8

Min(a, b) == IF a < b THEN a ELSE b
Max(a, b) == IF a > b THEN a ELSE b
Clamp(v, lo, hi) == IF v < lo THEN lo ELSE IF hi < v THEN hi ELSE v

(***************************************************************************)
(* Cells, lines, grids.                                                    *)
(***************************************************************************)
DefaultSGR == [styles |-> {}, fg |-> "Default", bg |-> "Default", ul |-> "Default"]
NoLink == [id |-> "", uri |-> ""]

\* Characters of the model: narrow letters and one wide (East Asian width 2)
\* character.  None of them combines with its predecessor.
Narrow == {"a", "b"}
Wide == {"W"}
CharWidth(ch) == IF ch \in Wide THEN 2 ELSE 1
nonbreakable(lastChar, ch) == FALSE

\* Cell{{}, sgr}: an empty cell of width 1 carrying the given attributes.
EmptyCell(sgr) == [ch |-> "", width |-> 1, sgr |-> sgr, link |-> NoLink]
\* Cell{L' ', sgr}
SpaceCell(sgr) == [ch |-> " ", width |-> 1, sgr |-> sgr, link |-> NoLink]
\* Cell::reset(sgr, hyperlink)
ResetCell(sgr, link) == [ch |-> "", width |-> 1, sgr |-> sgr, link |-> link]
\* Cell::setCharacter + setAttributes + setHyperlink
CharCell(ch, sgr, link) == [ch |-> ch, width |-> CharWidth(ch), sgr |-> sgr, link |-> link]

BlankLine(w, sgr, wrappable) ==
    [cells |-> [c \in 1..w |-> EmptyCell(sgr)], wrapped |-> FALSE,
     wrappable |-> wrappable, marked |-> FALSE]

\* Grid(size, reflowOnResize, maxHistoryLineCount)
NewGrid(sz, reflow, maxHist) ==
    [history |-> << >>,
     page |-> [r \in 1..sz.height |-> BlankLine(sz.width, DefaultSGR, reflow)],
     reflow |-> reflow, maxHistory |-> maxHist]

emptyGrids(sz, maxHist) ==
    [primary |-> NewGrid(sz, GridTextReflowEnabled, maxHist),
     alternate |-> NewGrid(sz, FALSE, 0)]

FullMargin(sz) == [top |-> 1, bottom |-> sz.height, left |-> 1, right |-> sz.width]

LastN(seq, n) == IF Len(seq) <= n THEN seq ELSE SubSeq(seq, Len(seq) - n + 1, Len(seq))

(***************************************************************************)
(* Grid.  The Grid class is declared outside this file set; its operations *)
(* follow the contracts of the specification's Grid section.               *)
(***************************************************************************)
\* The blank cell a scroll fills vacated lines with: current SGR background.
ScrollFillCell(sgr) == EmptyCell([DefaultSGR EXCEPT !.bg = sgr.bg])

PushHistory(g, displaced) == LastN(g.history \o displaced, g.maxHistory)

\* Grid::scrollUp(n, sgr, margin)
GridScrollUp(g, n0, sgr, m, sz) ==
    LET h == m.bottom - m.top + 1
        n == Min(n0, h)
        fullWidth == m.left = 1 /\ m.right = sz.width
        blankLine == [cells |-> [c \in 1..sz.width |-> ScrollFillCell(sgr)],
                      wrapped |-> FALSE, wrappable |-> g.reflow, marked |-> FALSE]
    IN  IF n <= 0 THEN g
        ELSE IF fullWidth
        THEN [g EXCEPT
                !.history = PushHistory(g, SubSeq(g.page, m.top, m.top + n - 1)),
                !.page = [r \in 1..sz.height |->
                            IF r < m.top \/ r > m.bottom THEN g.page[r]
                            ELSE IF r + n <= m.bottom THEN g.page[r + n]
                            ELSE blankLine]]
        ELSE [g EXCEPT
                !.page = [r \in 1..sz.height |->
                            IF r < m.top \/ r > m.bottom THEN g.page[r]
                            ELSE [g.page[r] EXCEPT !.cells = [c \in 1..sz.width |->
                                    IF c < m.left \/ c > m.right THEN g.page[r].cells[c]
                                    ELSE IF r + n <= m.bottom THEN g.page[r + n].cells[c]
                                    ELSE ScrollFillCell(sgr)]]]]

\* Grid::scrollDown(n, sgr, margin): the dual; never touches the history.
GridScrollDown(g, n0, sgr, m, sz) ==
    LET h == m.bottom - m.top + 1
        n == Min(n0, h)
        fullWidth == m.left = 1 /\ m.right = sz.width
        blankLine == [cells |-> [c \in 1..sz.width |-> ScrollFillCell(sgr)],
                      wrapped |-> FALSE, wrappable |-> g.reflow, marked |-> FALSE]
    IN  IF n <= 0 THEN g
        ELSE IF fullWidth
        THEN [g EXCEPT
                !.page = [r \in 1..sz.height |->
                            IF r < m.top \/ r > m.bottom THEN g.page[r]
                            ELSE IF r - n >= m.top THEN g.page[r - n]
                            ELSE blankLine]]
        ELSE [g EXCEPT
                !.page = [r \in 1..sz.height |->
                            IF r < m.top \/ r > m.bottom THEN g.page[r]
                            ELSE [g.page[r] EXCEPT !.cells = [c \in 1..sz.width |->
                                    IF c < m.left \/ c > m.right THEN g.page[r].cells[c]
                                    ELSE IF r - n >= m.top THEN g.page[r - n].cells[c]
                                    ELSE ScrollFillCell(sgr)]]]]

\* Grid::clearHistory()
GridClearHistory(g) == [g EXCEPT !.history = << >>]

(***************************************************************************)
(* Grid::resize with reflow.                                               *)
(***************************************************************************)
\* Truncate or blank-pad a cell sequence to width w.
PadCells(cells, w) ==
    [c \in 1..w |-> IF c <= Len(cells) THEN cells[c] ELSE EmptyCell(DefaultSGR)]

RECURSIVE TrimBlank(_)
TrimBlank(cells) ==
    IF cells = << >> \/ cells[Len(cells)].ch # "" THEN cells
    ELSE TrimBlank(SubSeq(cells, 1, Len(cells) - 1))

\* Last line of the wrap-run that starts at line i.
RECURSIVE RunEnd(_, _)
RunEnd(lines, i) ==
    IF i < Len(lines) /\ lines[i + 1].wrapped /\ lines[i + 1].wrappable
    THEN RunEnd(lines, i + 1) ELSE i

RECURSIVE JoinCells(_, _, _)
JoinCells(lines, i, j) ==
    IF i > j THEN << >> ELSE lines[i].cells \o JoinCells(lines, i + 1, j)

\* Re-split every wrap-run of wrappable lines at width newW, carrying the
\* position cur = [line, column] (line counted over history and page).
RECURSIVE ReflowFrom(_, _, _, _, _)
ReflowFrom(lines, i, newW, cur, acc) ==
    LET oldW == Len(lines[i].cells)
        \* The run i..j, its cells without the trailing blanks, in n new lines.
        split(j, trimmed, n) ==
            LET off == (cur.line - i) * oldW + cur.column - 1
            IN  [lines |-> acc.lines \o
                    [k \in 1..n |->
                        [cells |-> PadCells(SubSeq(trimmed, (k - 1) * newW + 1,
                                                   Min(k * newW, Len(trimmed))), newW),
                         wrapped |-> k > 1, wrappable |-> TRUE,
                         marked |-> (k = 1 /\ lines[i].marked)]],
                 cur |-> IF ~(cur.line >= i /\ cur.line <= j) THEN acc.cur
                         ELSE IF (off \div newW) <= n - 1
                         THEN [line |-> Len(acc.lines) + (off \div newW) + 1,
                               column |-> (off % newW) + 1]
                         ELSE [line |-> Len(acc.lines) + n, column |-> newW]]
        run(j, trimmed) ==
            ReflowFrom(lines, j + 1, newW, cur,
                       split(j, trimmed, Max(1, (Len(trimmed) + newW - 1) \div newW)))
        from(j) == run(j, TrimBlank(JoinCells(lines, i, j)))
    IN  IF i > Len(lines) THEN acc
        ELSE IF lines[i].wrappable THEN from(RunEnd(lines, i))
        ELSE ReflowFrom(lines, i + 1, newW, cur,
                [lines |-> Append(acc.lines,
                                  [lines[i] EXCEPT !.cells = PadCells(lines[i].cells, newW)]),
                 cur |-> IF cur.line = i
                         THEN [line |-> Len(acc.lines) + 1, column |-> cur.column]
                         ELSE acc.cur])

\* Grid::resize(newSize, cursor, wrapPending) -> [grid, cursor]
GridResize(g, newSize, pos, wrapPending) ==
    LET oldW == Len(g.page[1].cells)
        cur0 == [line |-> Len(g.history) + pos.row,
                 column |-> IF newSize.width = oldW THEN pos.column
                            ELSE pos.column + wrapPending]
        \* r: the lines of history and page at the new width, with the cursor.
        cut(r, padded) ==
            LET nHist == Len(padded) - newSize.height
            IN  [grid |-> [g EXCEPT !.history = LastN(SubSeq(padded, 1, nHist), g.maxHistory),
                                    !.page = SubSeq(padded, nHist + 1, Len(padded))],
                 cursor |-> [row |-> r.cur.line - nHist, column |-> r.cur.column]]
        pad(r) ==
            cut(r, r.lines \o [k \in 1..Max(0, newSize.height - Len(r.lines)) |->
                                  BlankLine(newSize.width, DefaultSGR, g.reflow)])
        width(all) ==
            IF newSize.width = oldW THEN [lines |-> all, cur |-> cur0]
            ELSE IF g.reflow
            THEN ReflowFrom(all, 1, newSize.width, cur0, [lines |-> << >>, cur |-> cur0])
            ELSE [lines |-> [k \in 1..Len(all) |->
                               [all[k] EXCEPT !.cells = PadCells(all[k].cells, newSize.width)]],
                  cur |-> IF newSize.width > oldW THEN cur0
                          ELSE [cur0 EXCEPT !.column = pos.column]]
    IN  pad(width(g.history \o g.page))

(***************************************************************************)
(* Screen: accessors declared in the class header.                         *)
(***************************************************************************)
isModeEnabled(s, mode) == mode \in s.modes.enabled
isPrimaryScreen(s) == s.screenType = "Main"
isAlternateScreen(s) == s.screenType = "Alternate"
activeGrid(s) == IF s.screenType = "Main" THEN "primary" ELSE "alternate"
backgroundGrid(s) == IF s.screenType = "Main" THEN "alternate" ELSE "primary"
grid(s) == s.grids[activeGrid(s)]
historyLineCount(s) == Len(grid(s).history)

realCursorPosition(s) == s.cursor.position
\* The origin of the addressable region: the margin origin under origin mode.
origin(s) ==
    IF s.cursor.originMode THEN [row |-> s.margin.top, column |-> s.margin.left]
    ELSE [row |-> 1, column |-> 1]
\* The logical (origin-relative) cursor position.
cursorPosition(s) ==
    [row |-> s.cursor.position.row - origin(s).row + 1,
     column |-> s.cursor.position.column - origin(s).column + 1]
toRealCoordinate(s, to) ==
    [row |-> to.row + origin(s).row - 1, column |-> to.column + origin(s).column - 1]
clampToScreen(s, p) ==
    [row |-> Clamp(p.row, 1, s.size.height), column |-> Clamp(p.column, 1, s.size.width)]
clampToOrigin(s, p) ==
    [row |-> Clamp(p.row, s.margin.top, s.margin.bottom),
     column |-> Clamp(p.column, s.margin.left, s.margin.right)]
clampCoordinate(s, p) ==
    IF s.cursor.originMode THEN clampToOrigin(s, p) ELSE clampToScreen(s, p)
HorizontalLength(m) == m.right - m.left + 1
isCursorInsideMargins(s) ==
    /\ s.margin.top <= s.cursor.position.row /\ s.cursor.position.row <= s.margin.bottom
    /\ \/ ~isModeEnabled(s, "LeftRightMargin")
       \/ /\ s.margin.left <= s.cursor.position.column
          /\ s.cursor.position.column <= s.margin.right

InPage(s, row, col) == row \in 1..s.size.height /\ col \in 1..s.size.width
\* Screen::at(): a cell of the active grid's main page.
at(s, row, col) == grid(s).page[row].cells[col]
\* currentLine_ and currentColumn_ are iterators into the lines and cells of a
\* grid, at the cursor's position; the member currentLine of the model is the
\* grid they point into.  updateCursorIterators() points them into the active
\* grid.
updateCursorIterators(s) == [s EXCEPT !.currentLine = activeGrid(s)]
\* Store a cell through the cursor's iterators.  A store through a position
\* outside the page is undefined in the program; the model leaves the grid alone.
SetCell(s, row, col, cell) ==
    IF InPage(s, row, col)
    THEN [s EXCEPT !.grids[s.currentLine].page[row].cells[col] = cell]
    ELSE s
\* Store cells lo..hi of one line.
FillCells(s, row, lo, hi, cell) ==
    IF row \in 1..s.size.height
    THEN [s EXCEPT !.grids[s.currentLine].page[row].cells =
            [c \in 1..s.size.width |-> IF c >= lo /\ c <= hi THEN cell ELSE @[c]]]
    ELSE s

(***************************************************************************)
(* Screen: cursor and scrolling.                                           *)
(***************************************************************************)
moveCursorTo(s, to) ==
    updateCursorIterators(
        [s EXCEPT !.wrapPending = 0,
                  !.cursor.position = clampToScreen(s, toRealCoordinate(s, to))])

scrollUpIn(s, n, m) ==
    updateCursorIterators(
        [s EXCEPT !.grids[activeGrid(s)] =
            GridScrollUp(grid(s), n, s.cursor.graphicsRendition, m, s.size)])

scrollDownIn(s, n, m) ==
    updateCursorIterators(
        [s EXCEPT !.grids[activeGrid(s)] =
            GridScrollDown(grid(s), n, s.cursor.graphicsRendition, m, s.size)])

\* scrollUp(n) / scrollDown(n): the margin defaults to the screen's margin.
\* scrollUp(n) that scrolls the whole page whatever the margins are.
MutScrollUpWholePage(s, n) == scrollUpIn(s, n, FullMargin(s.size))

scrollUp(s, n) == scrollUpIn(s, n, s.margin)

\* scrollDown(n) that scrolls the whole page whatever the margins are.
MutScrollDownWholePage(s, n) == scrollDownIn(s, n, FullMargin(s.size))

scrollDown(s, n) == scrollDownIn(s, n, s.margin)

setCurrentColumn(s, n) ==
    LET col == IF s.cursor.originMode THEN s.margin.left + n - 1 ELSE n
    IN  [s EXCEPT !.cursor.position.column = Min(col, s.size.width)]

linefeedTo(s, newColumn) ==
    LET scrolled(s1) ==
            moveCursorTo(s1, [row |-> cursorPosition(s1).row, column |-> newColumn])
    IN  IF \/ realCursorPosition(s).row = s.margin.bottom
           \/ realCursorPosition(s).row = s.size.height
        THEN scrolled(scrollUp([s EXCEPT !.wrapPending = 0], 1))
        ELSE [s EXCEPT !.wrapPending = 0,
                       !.cursor.position.row = @ + 1,
                       !.cursor.position.column = newColumn]

linefeed(s) ==
    IF isModeEnabled(s, "AutomaticNewLine")
    THEN linefeedTo(s, s.margin.left)
    ELSE linefeedTo(s, realCursorPosition(s).column)

backspace(s) ==
    moveCursorTo(s, [row |-> cursorPosition(s).row,
                     column |-> IF cursorPosition(s).column > 1
                                THEN cursorPosition(s).column - 1 ELSE 1])

\* index() that moves the cursor down on the bottom margin line as well.
MutIndexNeverScrolls(s) ==
    moveCursorTo(s, [row |-> cursorPosition(s).row + 1, column |-> cursorPosition(s).column])

index(s) ==
    IF realCursorPosition(s).row = s.margin.bottom THEN scrollUp(s, 1)
    ELSE moveCursorTo(s, [row |-> cursorPosition(s).row + 1,
                          column |-> cursorPosition(s).column])

reverseIndex(s) ==
    IF realCursorPosition(s).row = s.margin.top THEN scrollDown(s, 1)
    ELSE moveCursorTo(s, [row |-> cursorPosition(s).row - 1,
                          column |-> cursorPosition(s).column])

moveCursorUp(s, n0) ==
    LET n == Min(n0, IF cursorPosition(s).row > s.margin.top
                     THEN cursorPosition(s).row - s.margin.top
                     ELSE cursorPosition(s).row - 1)
        s1 == [s EXCEPT !.cursor.position.row = @ - n]
    IN  setCurrentColumn(s1, cursorPosition(s1).column)

moveCursorDown(s, n0) ==
    LET currentLineNumber == cursorPosition(s).row
        n == Min(n0, IF currentLineNumber <= s.margin.bottom
                     THEN s.margin.bottom - currentLineNumber
                     ELSE s.size.height - currentLineNumber)
        s1 == [s EXCEPT !.cursor.position.row = @ + n]
    IN  setCurrentColumn(s1, cursorPosition(s1).column)

moveCursorForward(s, n0) ==
    LET n == Min(n0, HorizontalLength(s.margin) - s.cursor.position.column)
    IN  [s EXCEPT !.cursor.position.column = @ + n]

moveCursorBackward(s, n0) ==
    LET s0 == [s EXCEPT !.wrapPending = 0]
        n == Min(n0, s0.cursor.position.column - 1)
    IN  setCurrentColumn(s0, s0.cursor.position.column - n)

moveCursorToColumn(s, column) == setCurrentColumn([s EXCEPT !.wrapPending = 0], column)
moveCursorToBeginOfLine(s) == setCurrentColumn([s EXCEPT !.wrapPending = 0], 1)
moveCursorToLine(s, row) == moveCursorTo(s, [row |-> row, column |-> s.cursor.position.column])
moveCursorToNextLine(s, n) == moveCursorTo(s, [row |-> cursorPosition(s).row + n, column |-> 1])
moveCursorToPrevLine(s, n0) ==
    LET n == Min(n0, cursorPosition(s).row - 1)
    IN  moveCursorTo(s, [row |-> cursorPosition(s).row - n, column |-> 1])
(***************************************************************************)
(* Screen: writing text.                                                   *)
(***************************************************************************)
\* Line::setWrapped(true) on the line under the cursor.
setWrappedCurrentLine(s) ==
    IF s.cursor.position.row \in 1..s.size.height
    THEN [s EXCEPT !.grids[s.currentLine].page[s.cursor.position.row].wrapped = TRUE]
    ELSE s

writeCharToCurrentAndAdvance(s, ch) ==
    LET row == s.cursor.position.row
        col == s.cursor.position.column
        cell == CharCell(ch, s.cursor.graphicsRendition, s.currentHyperlink)
        s1 == [SetCell(s, row, col, cell) EXCEPT !.lastCursorPosition = s.cursor.position]
        cursorInsideMargin == isModeEnabled(s1, "LeftRightMargin") /\ isCursorInsideMargins(s1)
        cellsAvailable == IF cursorInsideMargin THEN s1.margin.right - col
                          ELSE s1.size.width - col
        n == Min(cell.width, cellsAvailable)
    IN  IF n = cell.width
        THEN [FillCells(s1, row, col + 1, col + n - 1,
                        ResetCell(s1.cursor.graphicsRendition, s1.currentHyperlink))
                EXCEPT !.cursor.position.column = col + n]
        ELSE IF s1.cursor.autoWrap THEN [s1 EXCEPT !.wrapPending = 1]
        ELSE s1

clearAndAdvance(s, offset) ==
    LET row == s.cursor.position.row
        col == s.cursor.position.column
        availableColumnCount == HorizontalLength(s.margin) - col
        n == Min(offset, availableColumnCount)
    IN  IF offset = 0 THEN s
        ELSE IF n = offset
        THEN [FillCells(s, row, col, col + n - 1,
                        ResetCell(s.cursor.graphicsRendition, s.currentHyperlink))
                EXCEPT !.cursor.position.column = col + n]
        ELSE IF s.cursor.autoWrap THEN [s EXCEPT !.wrapPending = 1]
        ELSE s

\* writeText(ch): the charset tables map the model's characters to themselves
\* (US-ASCII designated), and no character of the alphabet joins the grapheme
\* cluster of its predecessor, so the append branch is never taken.
writeText(s, ch) ==
    LET wrapped(t) == IF isModeEnabled(t, "TextReflow") THEN setWrappedCurrentLine(t) ELSE t
        write(s1) ==
            LET lastChar ==
                    IF InPage(s1, s1.lastCursorPosition.row, s1.lastCursorPosition.column)
                    THEN at(s1, s1.lastCursorPosition.row, s1.lastCursorPosition.column).ch
                    ELSE ""
                insertToPrev == lastChar # "" /\ nonbreakable(lastChar, ch)
            IN  IF ~insertToPrev THEN writeCharToCurrentAndAdvance(s1, ch) ELSE s1
    IN  IF s.wrapPending = 1 /\ s.cursor.autoWrap
        THEN write(wrapped(linefeedTo(s, s.margin.left)))
        ELSE write(s)

(***************************************************************************)
(* Screen: tab stops.                                                      *)
(***************************************************************************)
RECURSIVE SortedInsert(_, _)
SortedInsert(seq, v) ==
    IF seq = << >> THEN <<v>>
    ELSE IF v <= Head(seq) THEN <<v>> \o seq
    ELSE <<Head(seq)>> \o SortedInsert(Tail(seq), v)

clearAllTabs(s) == [s EXCEPT !.tabs = << >>]

setTabUnderCursor(s) == [s EXCEPT !.tabs = SortedInsert(s.tabs, realCursorPosition(s).column)]

\* clearTabUnderCursor(): the implicit stops are first made explicit, at the
\* columns tabWidth_, 2 * tabWidth_, ...; then the stop at the cursor's column
\* is erased (the first one found).
clearTabUnderCursor(s) ==
    LET populated == IF s.tabs = << >> /\ tabWidth_ # 0
                     THEN [i \in 1..(s.size.width \div tabWidth_) |-> i * tabWidth_]
                     ELSE s.tabs
        found == {i \in 1..Len(populated) : populated[i] = realCursorPosition(s).column}
    IN  IF found = {} THEN [s EXCEPT !.tabs = populated]
        ELSE [s EXCEPT !.tabs =
                [i \in 1..(Len(populated) - 1) |->
                    IF i < CHOOSE k \in found : \A j \in found : k <= j
                    THEN populated[i] ELSE populated[i + 1]]]

\* First index i with tabs[i] > column, or Len(tabs) + 1.
RECURSIVE NextTabIndex(_, _, _)
NextTabIndex(tabs, column, i) ==
    IF i <= Len(tabs) /\ column >= tabs[i] THEN NextTabIndex(tabs, column, i + 1) ELSE i

moveCursorToNextTab(s) ==
    IF s.tabs # << >>
    THEN LET i == NextTabIndex(s.tabs, realCursorPosition(s).column, 1)
             currentCursorColumn == cursorPosition(s).column
         IN  IF i <= Len(s.tabs) THEN moveCursorForward(s, s.tabs[i] - currentCursorColumn)
             ELSE IF realCursorPosition(s).column < s.margin.right
             THEN moveCursorForward(s, s.margin.right - currentCursorColumn)
             ELSE moveCursorToNextLine(s, 1)
    ELSE IF tabWidth_ # 0
    THEN IF realCursorPosition(s).column < s.margin.right
         THEN moveCursorForward(s, Min(tabWidth_ - ((s.cursor.position.column - 1) % tabWidth_),
                                       s.size.width - cursorPosition(s).column))
         ELSE moveCursorToNextLine(s, 1)
    ELSE IF realCursorPosition(s).column < s.margin.right
         THEN moveCursorToColumn(s, s.margin.right)
         ELSE moveCursorToNextLine(s, 1)

\* The last tab stop at or before column - 1, or 0 when there is none.
RECURSIVE PrevTab(_, _, _)
PrevTab(tabs, limit, i) ==
    IF i = 0 THEN 0
    ELSE IF tabs[i] <= limit THEN tabs[i]
    ELSE PrevTab(tabs, limit, i - 1)

RECURSIVE cursorBackwardTabExplicit(_, _)
cursorBackwardTabExplicit(s, k) ==
    IF k = 0 THEN s
    ELSE LET t == PrevTab(s.tabs, cursorPosition(s).column - 1, Len(s.tabs))
         IN  IF t # 0 THEN cursorBackwardTabExplicit(moveCursorToColumn(s, t), k - 1)
             ELSE moveCursorToColumn(s, s.margin.left)

cursorBackwardTab(s, count) ==
    IF count = 0 THEN s
    ELSE IF s.tabs # << >> THEN cursorBackwardTabExplicit(s, count)
    ELSE IF tabWidth_ # 0
    THEN IF s.cursor.position.column <= tabWidth_ THEN moveCursorToBeginOfLine(s)
         ELSE LET m == s.cursor.position.column % tabWidth_
                  n == IF m # 0 THEN (count - 1) * tabWidth_ + m ELSE count * tabWidth_ + m
              IN  moveCursorBackward(s, n - 1)
    ELSE moveCursorToBeginOfLine(s)
(***************************************************************************)
(* Modes.  The Modes class is declared outside this file set: a bit per    *)
(* mode and, per mode, a stack of saved values.                            *)
(***************************************************************************)
DECModes == {"AutoWrap", "Origin", "LeftRightMargin", "TextReflow", "VisibleCursor",
             "UseApplicationCursorKeys", "UseAlternateScreen", "BatchedRendering",
             "SaveCursor", "ExtendedAltScreen", "Columns132", "AllowColumns80to132"}
AnsiModes == {"KeyboardAction", "Insert", "AutomaticNewLine"}
isValidAnsiMode(mode) == mode \in AnsiModes
isValidDECMode(mode) == mode \in DECModes

\* Modes{}
NewModes == [enabled |-> {}, saved |-> [k \in DECModes |-> << >>]]
\* Modes::set(mode, enable)
ModesSet(m, mode, enable) ==
    [m EXCEPT !.enabled = IF enable THEN @ \cup {mode} ELSE @ \ {mode}]
\* Modes::save(modes): push the current value of every listed mode.
ModesSave(m, modes) ==
    [m EXCEPT !.saved = [k \in DECModes |->
        IF k \in modes THEN Append(@[k], k \in m.enabled) ELSE @[k]]]
\* Modes::restore(modes): pop the saved value of every listed mode that has one.
ModesRestore(m, modes) ==
    LET has(k) == k \in modes /\ m.saved[k] # << >>
        top(k) == m.saved[k][Len(m.saved[k])]
    IN  [enabled |-> {k \in m.enabled : ~has(k)} \cup {k \in DECModes : has(k) /\ top(k)},
         saved |-> [k \in DECModes |->
                      IF has(k) THEN SubSeq(m.saved[k], 1, Len(m.saved[k]) - 1)
                      ELSE m.saved[k]]]

(***************************************************************************)
(* Screen: margins, buffers, cursor save and restore.                      *)
(***************************************************************************)
\* An absent parameter (std::nullopt) is written None.
None == -1

\* setTopBottomMargin() that sets the margins and leaves the cursor alone.
MutSetTopBottomMarginNoHome(s, top0, bottom0) ==
    LET bottom == IF bottom0 # None THEN Min(bottom0, s.size.height) ELSE s.size.height
        top == IF top0 # None THEN top0 ELSE 1
    IN  IF top < bottom
        THEN [s EXCEPT !.margin.top = top, !.margin.bottom = bottom]
        ELSE s

setTopBottomMargin(s, top0, bottom0) ==
    LET bottom == IF bottom0 # None THEN Min(bottom0, s.size.height) ELSE s.size.height
        top == IF top0 # None THEN top0 ELSE 1
    IN  IF top < bottom
        THEN moveCursorTo([s EXCEPT !.margin.top = top, !.margin.bottom = bottom],
                          [row |-> 1, column |-> 1])
        ELSE s

setLeftRightMargin(s, left0, right0) ==
    IF isModeEnabled(s, "LeftRightMargin")
    THEN LET right == IF right0 # None THEN Min(right0, s.size.width) ELSE s.size.width
             left == IF left0 # None THEN left0 ELSE 1
         IN  IF left + 1 < right
             THEN moveCursorTo([s EXCEPT !.margin.left = left, !.margin.right = right],
                               [row |-> 1, column |-> 1])
             ELSE s
    ELSE s

setBuffer(s, type) == IF s.screenType # type THEN [s EXCEPT !.screenType = type] ELSE s

clearScreen(s) == scrollUp(s, s.size.height)

clearScrollbackBuffer(s) ==
    [s EXCEPT !.grids.primary = GridClearHistory(@),
              !.grids.alternate = GridClearHistory(@)]

saveCursor(s) == [s EXCEPT !.savedCursor = s.cursor]

\* restoreCursor(Cursor const&)
restoreCursorFrom(s, savedCursor) ==
    updateCursorIterators([s EXCEPT !.wrapPending = 0, !.cursor = savedCursor])

(***************************************************************************)
(* Screen::resize                                                          *)
(***************************************************************************)
RECURSIVE TruncateTabs(_, _)
TruncateTabs(tabs, width) ==
    IF tabs # << >> /\ tabs[Len(tabs)] > width
    THEN TruncateTabs(SubSeq(tabs, 1, Len(tabs) - 1), width)
    ELSE tabs

\* The part of resize() after the two grids have been resized: s1 is the screen
\* with the resized grids and the cursor the active grid returned.
resizeScreen(s1, newSize) ==
    LET wp == IF newSize.width > s1.size.width THEN 0
              ELSE IF /\ s1.cursor.position.column = s1.size.width
                      /\ newSize.width < s1.size.width
                      /\ s1.wrapPending = 0
              THEN 1
              ELSE s1.wrapPending
        clamp(s2) ==
            [s2 EXCEPT !.cursor.position = clampCoordinate(s2, s2.cursor.position),
                       !.lastCursorPosition = clampCoordinate(s2, s2.lastCursorPosition),
                       !.tabs = TruncateTabs(s2.tabs, newSize.width)]
    IN  clamp(updateCursorIterators(
                [s1 EXCEPT !.wrapPending = wp, !.margin = FullMargin(newSize),
                           !.size = newSize]))

\* resize() that leaves the grid in the background at its old size.
MutResizeActiveGridOnly(s, newSize) ==
    LET active(ra) ==
            [s EXCEPT !.cursor.position = ra.cursor, !.grids[activeGrid(s)] = ra.grid]
    IN  resizeScreen(active(GridResize(grid(s), newSize, s.cursor.position, s.wrapPending)),
                     newSize)

\* resize() that replaces the grid in the background by a blank one.
MutResizeClearsBackground(s, newSize) ==
    LET background(ra) ==
            [s EXCEPT !.cursor.position = ra.cursor,
                      !.grids = [g \in {"primary", "alternate"} |->
                                    IF g = activeGrid(s) THEN ra.grid
                                    ELSE NewGrid(newSize, s.grids[g].reflow,
                                                 s.grids[g].maxHistory)]]
    IN  resizeScreen(background(GridResize(grid(s), newSize, s.cursor.position,
                                           s.wrapPending)),
                     newSize)

resize(s, newSize) ==
    LET background(ra) ==
            [s EXCEPT !.cursor.position = ra.cursor,
                      !.grids = [g \in {"primary", "alternate"} |->
                                    IF g = activeGrid(s) THEN ra.grid
                                    ELSE GridResize(s.grids[g], newSize, ra.cursor, 0).grid]]
    IN  resizeScreen(background(GridResize(grid(s), newSize, s.cursor.position,
                                           s.wrapPending)),
                     newSize)

(***************************************************************************)
(* Screen::setMode and the operations it reaches.                          *)
(***************************************************************************)
\* setMode(DECMode::TextReflow, enable): Line::Flags::Wrappable of the primary
\* page, all lines when enabling, the cursor's line and below when disabling.
setWrappable(s, enable) ==
    [s EXCEPT !.grids.primary.page = [r \in 1..Len(@) |->
        IF enable \/ r >= realCursorPosition(s).row
        THEN [@[r] EXCEPT !.wrappable = enable] ELSE @[r]]]

RECURSIVE setMode(_, _, _)

\* restoreCursor()
restoreCursor(s) ==
    LET origin_(s2) == setMode(s2, "Origin", s2.savedCursor.originMode)
        autoWrap(s1) == origin_(setMode(s1, "AutoWrap", s1.savedCursor.autoWrap))
    IN  autoWrap(restoreCursorFrom(s, s.savedCursor))

resizeColumns(s, newColumnCount, clear) ==
    LET cleared(s0) == clearScreen(setLeftRightMargin(s0, 1, s0.size.width))
        resized(s2) == resize(s2, [width |-> newColumnCount, height |-> s2.size.height])
    IN  resized(setMode(IF clear THEN cleared(setTopBottomMargin(s, 1, s.size.height))
                        ELSE s,
                        "LeftRightMargin", FALSE))

\* setMode(DECMode, bool)
setMode(s, mode, enable) ==
    LET s1 ==
          CASE mode = "AutoWrap" -> [s EXCEPT !.cursor.autoWrap = enable]
            [] mode = "LeftRightMargin" ->
                 IF ~enable
                 THEN [s EXCEPT !.margin.left = 1, !.margin.right = s.size.width]
                 ELSE s
            [] mode = "Origin" -> [s EXCEPT !.cursor.originMode = enable]
            [] mode = "Columns132" ->
                 IF ~enable \/ isModeEnabled(s, "AllowColumns80to132")
                 THEN resizeColumns(s, IF enable THEN 132 ELSE 80,
                                    enable # isModeEnabled(s, mode))
                 ELSE s
            [] mode = "TextReflow" ->
                 IF isPrimaryScreen(s) THEN setWrappable(s, enable) ELSE s
            [] mode = "UseAlternateScreen" ->
                 IF enable THEN setBuffer(s, "Alternate") ELSE setBuffer(s, "Main")
            [] mode = "VisibleCursor" -> [s EXCEPT !.cursor.visible = enable]
            [] mode = "SaveCursor" ->
                 IF enable THEN saveCursor(s) ELSE restoreCursor(s)
            [] mode = "ExtendedAltScreen" ->
                 IF enable
                 THEN clearScreen(setMode([s EXCEPT !.savedPrimaryCursor = s.cursor],
                                          "UseAlternateScreen", TRUE))
                 ELSE LET t == setMode(s, "UseAlternateScreen", FALSE)
                      IN  restoreCursorFrom(t, t.savedPrimaryCursor)
            [] OTHER -> s
    IN  IF ~isValidDECMode(mode) THEN s
        ELSE [s1 EXCEPT !.modes = ModesSet(@, mode, enable)]

\* setMode(AnsiMode, bool)
setAnsiMode(s, mode, enable) ==
    IF ~isValidAnsiMode(mode) THEN s
    ELSE [s EXCEPT !.modes = ModesSet(@, mode, enable)]

saveModes(s, modes) == [s EXCEPT !.modes = ModesSave(@, modes)]

\* restoreModes() that pops the saved values without setting the modes.
MutRestoreModesPopOnly(s, modes) ==
    [s EXCEPT !.modes.saved = ModesRestore(s.modes, modes).saved]

restoreModes(s, modes) == [s EXCEPT !.modes = ModesRestore(@, modes)]

\* screenAlignmentPattern(): DECALN.
screenAlignmentPattern(s) ==
    LET home == moveCursorTo([s EXCEPT !.margin = FullMargin(s.size)],
                             [row |-> 1, column |-> 1])
    IN  [home EXCEPT !.grids[activeGrid(home)].page =
            [r \in 1..home.size.height |->
                [@[r] EXCEPT !.cells =
                    [c \in 1..home.size.width |->
                        CharCell("E", home.cursor.graphicsRendition, NoLink)]]]]

(***************************************************************************)
(* Screen: rendition, hyperlinks, palette, window title.                   *)
(***************************************************************************)
\* The renditions that set the style flag of their own name.
SetRenditions ==
    {"Bold", "Faint", "Italic", "Underline", "Blinking", "Inverse", "Hidden", "CrossedOut",
     "DoublyUnderlined", "CurlyUnderlined", "DottedUnderline", "DashedUnderline", "Framed",
     "Overline"}
\* The style flags a clearing rendition removes.
ClearedFlags(rendition) ==
    CASE rendition = "Normal" -> {"Bold", "Faint"}
      [] rendition = "NoItalic" -> {"Italic"}
      [] rendition = "NoUnderline" -> {"Underline"}
      [] rendition = "NoBlinking" -> {"Blinking"}
      [] rendition = "NoInverse" -> {"Inverse"}
      [] rendition = "NoHidden" -> {"Hidden"}
      [] rendition = "NoCrossedOut" -> {"CrossedOut"}
      [] rendition = "NoFramed" -> {"Framed"}
      [] rendition = "NoOverline" -> {"Overline"}
      [] OTHER -> {}

\* setGraphicsRendition() whose Normal (SGR 22) leaves Faint set.
MutSetGraphicsRenditionNormalKeepsFaint(s, rendition) ==
    IF rendition = "Reset" THEN [s EXCEPT !.cursor.graphicsRendition = DefaultSGR]
    ELSE IF rendition \in SetRenditions
    THEN [s EXCEPT !.cursor.graphicsRendition.styles = @ \cup {rendition}]
    ELSE [s EXCEPT !.cursor.graphicsRendition.styles = @ \ (ClearedFlags(rendition) \ {"Faint"})]

setGraphicsRendition(s, rendition) ==
    IF rendition = "Reset" THEN [s EXCEPT !.cursor.graphicsRendition = DefaultSGR]
    ELSE IF rendition \in SetRenditions
    THEN [s EXCEPT !.cursor.graphicsRendition.styles = @ \cup {rendition}]
    ELSE [s EXCEPT !.cursor.graphicsRendition.styles = @ \ ClearedFlags(rendition)]

setForegroundColor(s, color) == [s EXCEPT !.cursor.graphicsRendition.fg = color]
setBackgroundColor(s, color) == [s EXCEPT !.cursor.graphicsRendition.bg = color]
setUnderlineColor(s, color) == [s EXCEPT !.cursor.graphicsRendition.ul = color]

\* hyperlink(id, uri): the registry maps an id to the link first registered for it.
hyperlink(s, id, uri) ==
    IF uri = "" THEN [s EXCEPT !.currentHyperlink = NoLink]
    ELSE IF id = "" THEN [s EXCEPT !.currentHyperlink = [id |-> id, uri |-> uri]]
    ELSE IF \E l \in s.hyperlinks : l.id = id
    THEN [s EXCEPT !.currentHyperlink = CHOOSE l \in s.hyperlinks : l.id = id]
    ELSE [s EXCEPT !.currentHyperlink = [id |-> id, uri |-> uri],
                   !.hyperlinks = @ \cup {[id |-> id, uri |-> uri]}]

clearToEndOfLine(s) ==
    FillCells(s, s.cursor.position.row, s.cursor.position.column, s.size.width,
              EmptyCell(s.cursor.graphicsRendition))

\* clearToEndOfScreen(): on the alternate screen with the cursor at the top left
\* the registry is emptied; then the rest of the line and the lines below, in
\* the grid currentLine_ points into.
clearToEndOfScreen(s) ==
    LET below(s1) ==
            [s1 EXCEPT !.grids[s1.currentLine].page =
                [r \in 1..s1.size.height |->
                    IF r > s1.cursor.position.row
                    THEN [@[r] EXCEPT !.cells =
                            [c \in 1..s1.size.width |-> EmptyCell(s1.cursor.graphicsRendition)]]
                    ELSE @[r]]]
    IN  below(clearToEndOfLine(
            IF isAlternateScreen(s) /\ s.cursor.position.row = 1 /\ s.cursor.position.column = 1
            THEN [s EXCEPT !.hyperlinks = {}]
            ELSE s))

clearToBeginOfLine(s) ==
    FillCells(s, s.cursor.position.row, 1, s.cursor.position.column,
              EmptyCell(s.cursor.graphicsRendition))

clearLine(s) ==
    FillCells(s, s.cursor.position.row, 1, s.size.width,
              EmptyCell(s.cursor.graphicsRendition))

clearToBeginOfScreen(s) ==
    LET above(s1) ==
            [s1 EXCEPT !.grids[s1.currentLine].page =
                [r \in 1..s1.size.height |->
                    IF r < s1.cursor.position.row
                    THEN [@[r] EXCEPT !.cells =
                            [c \in 1..s1.size.width |-> EmptyCell(s1.cursor.graphicsRendition)]]
                    ELSE @[r]]]
    IN  above(clearToBeginOfLine(s))

eraseCharacters(s, n0) ==
    LET n == Min(s.size.width - realCursorPosition(s).column + 1, IF n0 = 0 THEN 1 ELSE n0)
    IN  FillCells(s, s.cursor.position.row, s.cursor.position.column,
                  s.cursor.position.column + n - 1, EmptyCell(s.cursor.graphicsRendition))

DefaultColorPalette == [defaultForeground |-> "fg0", defaultBackground |-> "bg0"]

setDynamicColor(s, name, value) ==
    CASE name = "DefaultForegroundColor" -> [s EXCEPT !.colorPalette.defaultForeground = value]
      [] name = "DefaultBackgroundColor" -> [s EXCEPT !.colorPalette.defaultBackground = value]
      [] OTHER -> s

setWindowTitle(s, title) == [s EXCEPT !.windowTitle = title]
saveWindowTitle(s) == [s EXCEPT !.savedWindowTitles = Append(@, s.windowTitle)]
restoreWindowTitle(s) ==
    IF s.savedWindowTitles # << >>
    THEN [s EXCEPT !.windowTitle = s.savedWindowTitles[Len(s.savedWindowTitles)],
                   !.savedWindowTitles = SubSeq(@, 1, Len(@) - 1)]
    ELSE s

(***************************************************************************)
(* Screen: resets and construction.                                        *)
(***************************************************************************)
\* resetSoft() without the DECSTBM and DECSLRM calls.
MutResetSoftKeepsMargins(s) ==
    LET renditionAndSavedCursor(s2) ==
            [setGraphicsRendition(s2, "Reset")
                EXCEPT !.savedCursor.position = [row |-> 1, column |-> 1]]
        finish(s12) == [s12 EXCEPT !.currentHyperlink = NoLink,
                                   !.colorPalette = DefaultColorPalette]
    IN  finish(
          setMode(
            setAnsiMode(
              setMode(
                setAnsiMode(
                  setMode(
                    setMode(
                      renditionAndSavedCursor(
                        setMode(setMode(s, "BatchedRendering", FALSE),
                                "TextReflow", GridTextReflowEnabled)),
                      "VisibleCursor", TRUE),
                    "Origin", FALSE),
                  "KeyboardAction", FALSE),
                "AutoWrap", FALSE),
              "Insert", FALSE),
            "UseApplicationCursorKeys", FALSE))

resetSoft(s) ==
    LET renditionAndSavedCursor(s2) ==
            [setGraphicsRendition(s2, "Reset")
                EXCEPT !.savedCursor.position = [row |-> 1, column |-> 1]]
        margins(s10) ==
            setLeftRightMargin(setTopBottomMargin(s10, 1, s10.size.height), 1, s10.size.width)
        finish(s12) == [s12 EXCEPT !.currentHyperlink = NoLink,
                                   !.colorPalette = DefaultColorPalette]
    IN  finish(margins(
          setMode(
            setAnsiMode(
              setMode(
                setAnsiMode(
                  setMode(
                    setMode(
                      renditionAndSavedCursor(
                        setMode(setMode(s, "BatchedRendering", FALSE),
                                "TextReflow", GridTextReflowEnabled)),
                      "VisibleCursor", TRUE),
                    "Origin", FALSE),
                  "KeyboardAction", FALSE),
                "AutoWrap", FALSE),
              "Insert", FALSE),
            "UseApplicationCursorKeys", FALSE)))

resetHard(s) ==
    LET modes(s1) == [s1 EXCEPT !.modes = NewModes]
        grids(s5) == [s5 EXCEPT !.grids = emptyGrids(s5.size, s5.grids.primary.maxHistory),
                                !.screenType = "Main"]
        finish(s7) == [s7 EXCEPT !.lastCursorPosition = s7.cursor.position,
                                 !.margin = FullMargin(s7.size),
                                 !.currentHyperlink = NoLink,
                                 !.colorPalette = DefaultColorPalette]
    IN  finish(moveCursorTo(
          grids(clearAllTabs(
            setMode(setMode(modes(setBuffer(s, "Main")), "AutoWrap", TRUE),
                    "TextReflow", TRUE))),
          [row |-> 1, column |-> 1]))

\* The members as their declarations initialise them, before the constructor body.
Members(sz, maxHist) ==
    [size |-> sz,
     cursor |-> [position |-> [row |-> 1, column |-> 1], autoWrap |-> FALSE,
                 originMode |-> FALSE, visible |-> TRUE, graphicsRendition |-> DefaultSGR],
     wrapPending |-> 0,
     margin |-> FullMargin(sz),
     modes |-> NewModes,
     tabs |-> << >>,
     grids |-> emptyGrids(sz, maxHist),
     screenType |-> "Main",
     savedCursor |-> [position |-> [row |-> 1, column |-> 1], autoWrap |-> FALSE,
                      originMode |-> FALSE, visible |-> TRUE,
                      graphicsRendition |-> DefaultSGR],
     savedPrimaryCursor |-> [position |-> [row |-> 1, column |-> 1], autoWrap |-> FALSE,
                             originMode |-> FALSE, visible |-> TRUE,
                             graphicsRendition |-> DefaultSGR],
     currentHyperlink |-> NoLink,
     hyperlinks |-> {},
     colorPalette |-> DefaultColorPalette,
     windowTitle |-> "",
     savedWindowTitles |-> << >>,
     lastCursorPosition |-> [row |-> 1, column |-> 1],
     currentLine |-> "primary",
     replyData |-> << >>]

\* Screen::Screen(size, ..., maxHistoryLineCount, ...)
Screen(sz, maxHist) == resetHard(Members(sz, maxHist))

(***************************************************************************)
(* The state machine: the variables hold the members of one Screen; an     *)
(* action applies one operation to them.  lastOp records the operation     *)
(* applied last with the cursor, wrap and auto-wrap flags it found; steps  *)
(* is the number of operations still to come; modeLog records, per mode,   *)
(* the values the mode had at the saves not yet restored.                  *)
(***************************************************************************)
Cur ==
    [size |-> size_, cursor |-> cursor_, wrapPending |-> wrapPending_, margin |-> margin_,
     modes |-> modes_, tabs |-> tabs_, grids |-> grids_, screenType |-> screenType_,
     savedCursor |-> savedCursor_, savedPrimaryCursor |-> savedPrimaryCursor_,
     currentHyperlink |-> currentHyperlink_, hyperlinks |-> hyperlinks_,
     colorPalette |-> colorPalette_, windowTitle |-> windowTitle_,
     savedWindowTitles |-> savedWindowTitles_, lastCursorPosition |-> lastCursorPosition_,
     currentLine |-> currentLine_, replyData |-> replyData]

NoOp ==
    [name |-> "construct", args |-> << >>, wp |-> 0, aw |-> TRUE,
     pos |-> [row |-> 1, column |-> 1]]

Start(screen, budget) ==
    \E s \in {screen} :
        /\ size_ = s.size /\ cursor_ = s.cursor /\ wrapPending_ = s.wrapPending
        /\ margin_ = s.margin /\ modes_ = s.modes /\ tabs_ = s.tabs /\ grids_ = s.grids
        /\ screenType_ = s.screenType /\ savedCursor_ = s.savedCursor
        /\ savedPrimaryCursor_ = s.savedPrimaryCursor
        /\ currentHyperlink_ = s.currentHyperlink /\ hyperlinks_ = s.hyperlinks
        /\ colorPalette_ = s.colorPalette /\ windowTitle_ = s.windowTitle
        /\ savedWindowTitles_ = s.savedWindowTitles
        /\ lastCursorPosition_ = s.lastCursorPosition
        /\ currentLine_ = s.currentLine
        /\ replyData = s.replyData
        /\ lastOp = NoOp
        /\ steps = budget
        /\ modeLog = [k \in DECModes |-> << >>]
        /\ inputQueue = << >>
        /\ inputLog = [generated |-> << >>, consumed |-> 0, peeked |-> << >>]

\* Every operation works through the cursor's line and column iterators, which
\* are defined only while the cursor is inside the page; from a state where it
\* is not, the behaviour of the next operation is undefined and none is taken.
StoreMembers(screen, name, args) ==
    /\ steps > 0
    /\ InPage(Cur, cursor_.position.row, cursor_.position.column)
    /\ \E s \in {screen} :
        /\ size_' = s.size /\ cursor_' = s.cursor /\ wrapPending_' = s.wrapPending
        /\ margin_' = s.margin /\ modes_' = s.modes /\ tabs_' = s.tabs /\ grids_' = s.grids
        /\ screenType_' = s.screenType /\ savedCursor_' = s.savedCursor
        /\ savedPrimaryCursor_' = s.savedPrimaryCursor
        /\ currentHyperlink_' = s.currentHyperlink /\ hyperlinks_' = s.hyperlinks
        /\ colorPalette_' = s.colorPalette /\ windowTitle_' = s.windowTitle
        /\ savedWindowTitles_' = s.savedWindowTitles
        /\ lastCursorPosition_' = s.lastCursorPosition
        /\ currentLine_' = s.currentLine
        /\ replyData' = s.replyData
    /\ lastOp' = [name |-> name, args |-> args, wp |-> wrapPending_,
                  aw |-> cursor_.autoWrap, pos |-> cursor_.position]
Store(screen, name, args) == StoreMembers(screen, name, args) /\ steps' = steps - 1

Apply(s, name, args) == Store(s, name, args) /\ UNCHANGED <<modeLog, inputQueue, inputLog>>
(***************************************************************************)
(* Actions: one per operation, the arguments drawn from small sets.        *)
(***************************************************************************)
MaxMove == 2
Rows == 1..size_.height
Columns == 1..size_.width
PageSizes == {[width |-> 3, height |-> 2], [width |-> 4, height |-> 3]}

WriteText(chars) == \E ch \in chars : Apply(writeText(Cur, ch), "writeText", <<ch>>)
Linefeed == Apply(linefeed(Cur), "linefeed", << >>)
Index == Apply(index(Cur), "index", << >>)
ReverseIndex == Apply(reverseIndex(Cur), "reverseIndex", << >>)
Backspace == Apply(backspace(Cur), "backspace", << >>)
MoveCursorTo ==
    \E r \in Rows, c \in Columns :
        Apply(moveCursorTo(Cur, [row |-> r, column |-> c]), "moveCursorTo", <<r, c>>)
MoveCursorUp == \E n \in 1..MaxMove : Apply(moveCursorUp(Cur, n), "moveCursorUp", <<n>>)
MoveCursorDown == \E n \in 1..MaxMove : Apply(moveCursorDown(Cur, n), "moveCursorDown", <<n>>)
MoveCursorForward ==
    \E n \in 1..MaxMove : Apply(moveCursorForward(Cur, n), "moveCursorForward", <<n>>)
MoveCursorBackward ==
    \E n \in 1..MaxMove : Apply(moveCursorBackward(Cur, n), "moveCursorBackward", <<n>>)
MoveCursorToNextTab == Apply(moveCursorToNextTab(Cur), "moveCursorToNextTab", << >>)
CursorBackwardTab ==
    \E n \in 0..MaxMove : Apply(cursorBackwardTab(Cur, n), "cursorBackwardTab", <<n>>)
HorizontalTabSet == Apply(setTabUnderCursor(Cur), "setTabUnderCursor", << >>)
SetTopBottomMargin ==
    \E t \in Rows, b \in Rows :
        Apply(setTopBottomMargin(Cur, t, b), "setTopBottomMargin", <<t, b>>)
SetLeftRightMargin ==
    \E l \in Columns, r \in Columns :
        Apply(setLeftRightMargin(Cur, l, r), "setLeftRightMargin", <<l, r>>)
SetMode(modes) ==
    \E m \in modes, enable \in BOOLEAN :
        Apply(setMode(Cur, m, enable), "setMode", <<m, enable>>)
Resize == \E sz \in PageSizes : Apply(resize(Cur, sz), "resize", <<sz>>)
ClearScreen == Apply(clearScreen(Cur), "clearScreen", << >>)

(***************************************************************************)
(* Cursor movement: the operations that move the cursor or change the      *)
(* region it is addressed in, on a page of 3 lines and 4 columns.          *)
(***************************************************************************)
MaxStepsCursor == 3
InitCursor == Start(Screen([width |-> 4, height |-> 3], MaxHistory), MaxStepsCursor)
NextCursor ==
    \/ WriteText({"a", "W"})
    \/ Linefeed
    \/ Index
    \/ ReverseIndex
    \/ MoveCursorTo
    \/ MoveCursorUp
    \/ MoveCursorDown
    \/ MoveCursorForward
    \/ MoveCursorBackward
    \/ MoveCursorToNextTab
    \/ CursorBackwardTab
    \/ HorizontalTabSet
    \/ SetTopBottomMargin
    \/ SetLeftRightMargin
    \/ SetMode({"Origin", "LeftRightMargin"})
    \/ Resize
SpecCursor == InitCursor /\ [][NextCursor]_vars

\* C1: in every reachable state the cursor's real position lies inside the page:
\* 1 <= row <= page lines and 1 <= column <= page columns.
C1_CursorInsidePage ==
    /\ 1 <= cursor_.position.row /\ cursor_.position.row <= size_.height
    /\ 1 <= cursor_.position.column /\ cursor_.position.column <= size_.width

\* C2: in every reachable state, if wrap_pending is set then the cursor is at the
\* right margin: column margin.right while DECLRMM is enabled, the last page
\* column otherwise.
C2_WrapPendingAtRightMargin ==
    wrapPending_ = 1 =>
        IF "LeftRightMargin" \in modes_.enabled
        THEN cursor_.position.column = margin_.right
        ELSE cursor_.position.column = size_.width
\* C4: in every reachable state every cell of display width 2 is immediately
\* followed in the same row by a continuation cell with no content of its own,
\* so that no wide character is stored in the last column and a character
\* written into a continuation cell has cleared the wide cell that owned it.
\* (The claim also asks width 0 of the continuation cell; the property here is
\* the claim without that, so a state violating it violates the claim.)
C4_WideCellHasContinuation ==
    \A r \in 1..size_.height : \A c \in 1..size_.width :
        grid(Cur).page[r].cells[c].width = 2 =>
            /\ c < size_.width
            /\ grid(Cur).page[r].cells[c + 1].ch = ""

(***************************************************************************)
(* The two grids: writing with auto-wrap, linefeeds, clearing, switching   *)
(* between the primary and the alternate buffer and resizing, on a page    *)
(* that starts with 2 lines and 3 columns.                                 *)
(***************************************************************************)
MaxStepsGrid == 5
InitGrid == Start(Screen([width |-> 3, height |-> 2], MaxHistory), MaxStepsGrid)
NextGrid ==
    \/ WriteText({"a"})
    \/ Linefeed
    \/ ClearScreen
    \/ SetMode({"UseAlternateScreen", "ExtendedAltScreen"})
    \/ Resize
SpecGrid == InitGrid /\ [][NextGrid]_vars

\* C3: after every operation the primary grid's history holds at most
\* max_history_lines lines, the main page of the active grid has exactly
\* page_size.lines lines (each of page_size.columns cells), and the alternate
\* grid has no history lines.
C3_GridShape ==
    /\ Len(grids_.primary.history) <= grids_.primary.maxHistory
    /\ grids_.primary.maxHistory = MaxHistory
    /\ Len(grids_[activeGrid(Cur)].page) = size_.height
    /\ \A r \in 1..Len(grids_[activeGrid(Cur)].page) :
          Len(grids_[activeGrid(Cur)].page[r].cells) = size_.width
    /\ Len(grids_.alternate.history) = 0

\* The history is full and the page was resized while the alternate grid was
\* active, after the primary grid had scrolled.
C3_Witness ==
    /\ Len(grids_.primary.history) = MaxHistory
    /\ screenType_ = "Alternate"
    /\ lastOp.name = "resize"
    /\ size_ # [width |-> 3, height |-> 2]
(***************************************************************************)
(* Writing at the right margin, on a page of 2 lines and 4 columns that    *)
(* starts as constructed, or with DECLRMM set and the left and right       *)
(* margins at columns 2 and 4, or with origin mode set on top of that.     *)
(***************************************************************************)
MaxStepsWrap == 5
WrapPage == [width |-> 4, height |-> 2]
WithLeftRightMargin(s) == setLeftRightMargin(setMode(s, "LeftRightMargin", TRUE), 2, 4)
InitWrap ==
    \/ Start(Screen(WrapPage, MaxHistory), MaxStepsWrap)
    \/ Start(WithLeftRightMargin(Screen(WrapPage, MaxHistory)), MaxStepsWrap)
    \/ Start(setMode(WithLeftRightMargin(Screen(WrapPage, MaxHistory)), "Origin", TRUE),
             MaxStepsWrap)
NextWrap ==
    \/ WriteText({"a", "b"})
    \/ MoveCursorTo
    \/ SetMode({"AutoWrap"})
SpecWrap == InitWrap /\ [][NextWrap]_vars

\* The column a line ends in for the cursor: the right margin while DECLRMM is
\* enabled, the last page column otherwise.
RightMarginColumn == IF "LeftRightMargin" \in modes_.enabled THEN margin_.right ELSE size_.width
AtRightMargin == cursor_.position.column = RightMarginColumn /\ isCursorInsideMargins(Cur)
OnBottomLine ==
    cursor_.position.row = margin_.bottom \/ cursor_.position.row = size_.height

\* C5: with auto-wrap on, a width-1 character written into the right-margin
\* column is stored there, leaves the cursor in that column and sets
\* wrap_pending; the next character is written at the left margin of the next
\* line (of the same line, scrolled up, when the cursor was on the bottom line).
C5_AutoWrapOn ==
    [][(lastOp'.name = "writeText" /\ cursor_.autoWrap) =>
         /\ (wrapPending_ = 0 /\ AtRightMargin) =>
               /\ grid(Cur)'.page[cursor_.position.row].cells[cursor_.position.column].ch
                    = lastOp'.args[1]
               /\ cursor_'.position = cursor_.position
               /\ wrapPending_' = 1
         /\ (wrapPending_ = 1 /\ AtRightMargin) =>
               LET row == IF OnBottomLine THEN cursor_.position.row
                          ELSE cursor_.position.row + 1
               IN  /\ grid(Cur)'.page[row].cells[margin_.left].ch = lastOp'.args[1]
                   /\ cursor_'.position = [row |-> row, column |-> margin_.left + 1]
                   /\ wrapPending_' = 0
      ]_vars

\* C6: with auto-wrap off, a character written with the cursor at the right
\* margin overwrites the right-margin cell, the cursor does not move, nothing
\* scrolls and wrap_pending is not set; after auto-wrap is switched on from off
\* with the cursor parked there, the first character still overwrites the
\* right-margin cell (and only sets wrap_pending).
C6_AutoWrapOff ==
    [][(lastOp'.name = "writeText" /\ AtRightMargin) =>
         /\ ~cursor_.autoWrap =>
               /\ grid(Cur)'.page[cursor_.position.row].cells[cursor_.position.column].ch
                    = lastOp'.args[1]
               /\ cursor_'.position = cursor_.position
               /\ grids_'[activeGrid(Cur)].history = grids_[activeGrid(Cur)].history
               /\ wrapPending_' = 0
         /\ (cursor_.autoWrap /\ lastOp.name = "setMode" /\ lastOp.args = <<"AutoWrap", TRUE>>
               /\ ~lastOp.aw) =>
               /\ grid(Cur)'.page[cursor_.position.row].cells[cursor_.position.column].ch
                    = lastOp'.args[1]
               /\ cursor_'.position = cursor_.position
               /\ wrapPending_' = 1
      ]_vars
(***************************************************************************)
(* Resizing a page of 2 lines and 3 columns with a history of one line,    *)
(* holding text written with auto-wrap and linefeeds, in either buffer,    *)
(* with DECSET/DECRST of the text-reflow mode.                             *)
(***************************************************************************)
MaxStepsResize == 5
MaxHistoryResize == 1
ResizePage == [width |-> 3, height |-> 2]
ResizeSizes == {[width |-> 1, height |-> 2], [width |-> 2, height |-> 2],
                [width |-> 3, height |-> 2], [width |-> 4, height |-> 2],
                [width |-> 3, height |-> 1]}
ResizeTo == \E sz \in ResizeSizes : Apply(resize(Cur, sz), "resize", <<sz>>)
InitResize == Start(Screen(ResizePage, MaxHistoryResize), MaxStepsResize)
NextResize ==
    \/ WriteText({"a", "b"})
    \/ Linefeed
    \/ SetMode({"TextReflow", "UseAlternateScreen"})
    \/ ResizeTo
SpecResize == InitResize /\ [][NextResize]_vars

\* The text of a cell sequence: its characters up to the last non-blank cell,
\* a blank cell in between reading as a space.
CellsText(cells) ==
    [c \in 1..Len(TrimBlank(cells)) |-> IF cells[c].ch = "" THEN " " ELSE cells[c].ch]
AllLines(g) == g.history \o g.page
\* The texts of the wrap-runs of a sequence of lines, top to bottom.
RECURSIVE RunTexts(_)
RunTexts(lines) ==
    IF lines = << >> THEN << >>
    ELSE <<CellsText(JoinCells(lines, 1, RunEnd(lines, 1)))>>
            \o RunTexts(SubSeq(lines, RunEnd(lines, 1) + 1, Len(lines)))
LineTexts(lines) == [k \in 1..Len(lines) |-> CellsText(lines[k].cells)]
\* A sequence of texts without the empty texts at its end (blank bottom lines).
RECURSIVE StripEmpty(_)
StripEmpty(texts) ==
    IF texts = << >> \/ texts[Len(texts)] # << >> THEN texts
    ELSE StripEmpty(SubSeq(texts, 1, Len(texts) - 1))
RECURSIVE Flat(_)
Flat(texts) == IF texts = << >> THEN << >> ELSE texts[1] \o Flat(Tail(texts))
IsSuffix(a, b) == Len(a) <= Len(b) /\ a = SubSeq(b, Len(b) - Len(a) + 1, Len(b))
Truncated(lines, w) == [k \in 1..Len(lines) |-> CellsText(PadCells(lines[k].cells, w))]
Reflowing(g) == \A k \in 1..Len(AllLines(g)) : AllLines(g)[k].wrappable
NotReflowing(g) == \A k \in 1..Len(AllLines(g)) : ~AllLines(g)[k].wrappable

MaxStepsModes == 5
ModesPage == [width |-> 2, height |-> 2]
ModeSets == {{"AutoWrap"}, {"Origin"}, {"AutoWrap", "Origin"}}
SaveModes ==
    \E M \in ModeSets :
        /\ Store(saveModes(Cur, M), "saveModes", <<M>>)
        /\ UNCHANGED <<inputQueue, inputLog>>
        /\ modeLog' = [k \in DECModes |->
                         IF k \in M THEN Append(modeLog[k], isModeEnabled(Cur, k))
                         ELSE modeLog[k]]
RestoreModes ==
    \E M \in ModeSets :
        /\ Store(restoreModes(Cur, M), "restoreModes", <<M>>)
        /\ UNCHANGED <<inputQueue, inputLog>>
        /\ modeLog' = [k \in DECModes |->
                         IF k \in M /\ modeLog[k] # << >>
                         THEN SubSeq(modeLog[k], 1, Len(modeLog[k]) - 1)
                         ELSE modeLog[k]]
InitModes == Start(Screen(ModesPage, MaxHistory), MaxStepsModes)
NextModes ==
    \/ SaveModes
    \/ SetMode({"AutoWrap", "Origin"})
    \/ RestoreModes
SpecModes == InitModes /\ [][NextModes]_vars

\* C8: mode save/restore is a round trip: restoreModes(M) leaves every mode of
\* M that has an unrestored save with the value it had at its latest such save,
\* whatever setMode calls came in between, and nested saves are restored last
\* in, first out, mode by mode.
C8_SaveRestoreRoundTrip ==
    [][lastOp'.name = "restoreModes" =>
         \A k \in lastOp'.args[1] :
            modeLog[k] # << >> =>
               (k \in modes_'.enabled) = modeLog[k][Len(modeLog[k])]
      ]_vars

\* Auto-wrap was saved twice, switched off, and restored once: the mode is on
\* again (the cursor's own flag still shows the DECRST) and one save is left.
C8_Witness ==
    /\ lastOp.name = "restoreModes"
    /\ "AutoWrap" \in lastOp.args[1]
    /\ "AutoWrap" \in modes_.enabled
    /\ ~cursor_.autoWrap
    /\ Len(modeLog["AutoWrap"]) = 1

(***************************************************************************)
(* Resets: RIS and DECSTR after operations that change the rendition, the  *)
(* hyperlink, the palette, the window title stack, the modes, the margins  *)
(* and the page content, on a page of 3 lines and 4 columns.               *)
(***************************************************************************)
MaxStepsReset == 3
ResetPage == [width |-> 4, height |-> 3]
SetGraphicsRendition ==
    \E r \in {"Bold", "Inverse"} :
        Apply(setGraphicsRendition(Cur, r), "setGraphicsRendition", <<r>>)
Hyperlink ==
    \E uri \in {"", "u"} : Apply(hyperlink(Cur, "i", uri), "hyperlink", <<"i", uri>>)
SetDynamicColor ==
    Apply(setDynamicColor(Cur, "DefaultForegroundColor", "fg1"), "setDynamicColor",
          <<"DefaultForegroundColor", "fg1">>)
SetWindowTitle == Apply(setWindowTitle(Cur, "t"), "setWindowTitle", <<"t">>)
SaveWindowTitle == Apply(saveWindowTitle(Cur), "saveWindowTitle", << >>)
SetAnsiMode ==
    \E m \in {"Insert", "KeyboardAction", "Unknown1234"}, enable \in BOOLEAN :
        Apply(setAnsiMode(Cur, m, enable), "setMode", <<m, enable>>)
ResetSoft == Apply(resetSoft(Cur), "resetSoft", << >>)
ResetHard == Apply(resetHard(Cur), "resetHard", << >>)
InitReset == Start(Screen(ResetPage, MaxHistory), MaxStepsReset)
NextReset ==
    \/ WriteText({"a"})
    \/ SetGraphicsRendition
    \/ Hyperlink
    \/ SetDynamicColor
    \/ SetWindowTitle
    \/ SaveWindowTitle
    \/ SetAnsiMode
    \/ SetMode({"AutoWrap", "Origin", "LeftRightMargin", "VisibleCursor",
                "UseApplicationCursorKeys", "UseAlternateScreen", "TextReflow"})
    \/ SetTopBottomMargin
    \/ SetLeftRightMargin
    \/ HorizontalTabSet
    \/ ResetSoft
    \/ ResetHard
SpecReset == InitReset /\ [][NextReset]_vars

\* The state the claims on resets call observable.
Observable(s) ==
    [screenType |-> s.screenType, modes |-> s.modes.enabled,
     position |-> s.cursor.position, graphicsRendition |-> s.cursor.graphicsRendition,
     originMode |-> s.cursor.originMode, autoWrap |-> s.cursor.autoWrap,
     wrapPending |-> s.wrapPending, margin |-> s.margin, tabs |-> s.tabs,
     grids |-> s.grids, colorPalette |-> s.colorPalette,
     currentHyperlink |-> s.currentHyperlink, hyperlinks |-> s.hyperlinks,
     savedWindowTitles |-> s.savedWindowTitles]

\* C9: hard reset equals construction: after resetHard() the observable state
\* (active buffer, mode bits, cursor position, SGR rendition, origin and
\* auto-wrap flags, wrap_pending, margins, tab stops, both grids and history,
\* palette, current hyperlink, hyperlink registry, saved window titles) is that
\* of a freshly constructed Screen of the same page size and history capacity.
C9_HardResetEqualsConstruction ==
    lastOp.name = "resetHard" =>
        Observable(Cur) = Observable(Screen(size_, grids_.primary.maxHistory))

\* The characters held by the lines of a grid, history first.
GridContent(g) == [k \in 1..Len(AllLines(g)) |-> [c \in 1..Len(AllLines(g)[k].cells) |->
                      AllLines(g)[k].cells[c].ch]]

\* What both readings of the soft reset agree on: default rendition, origin
\* mode, insert mode, KAM and DECCKM off, margins spanning the page, cursor
\* visible, no current hyperlink, default palette, grid content and history as
\* before.
SoftResetCommon ==
    /\ cursor_'.graphicsRendition = DefaultSGR
    /\ ~cursor_'.originMode /\ "Origin" \notin modes_'.enabled
    /\ "Insert" \notin modes_'.enabled
    /\ "KeyboardAction" \notin modes_'.enabled
    /\ "UseApplicationCursorKeys" \notin modes_'.enabled
    /\ margin_' = FullMargin(size_')
    /\ cursor_'.visible /\ "VisibleCursor" \in modes_'.enabled
    /\ currentHyperlink_' = NoLink
    /\ colorPalette_' = DefaultColorPalette
    /\ GridContent(grids_'.primary) = GridContent(grids_.primary)
    /\ GridContent(grids_'.alternate) = GridContent(grids_.alternate)

toAnsiModeNum(mode) ==
    CASE mode = "KeyboardAction" -> 2
      [] mode = "Insert" -> 4
      [] mode = "AutomaticNewLine" -> 20
      [] OTHER -> 1234
toDECModeNum(mode) ==
    CASE mode = "UseApplicationCursorKeys" -> 1
      [] mode = "Columns132" -> 3
      [] mode = "Origin" -> 6
      [] mode = "AutoWrap" -> 7
      [] mode = "VisibleCursor" -> 25
      [] mode = "AllowColumns80to132" -> 40
      [] mode = "UseAlternateScreen" -> 47
      [] mode = "LeftRightMargin" -> 69
      [] mode = "SaveCursor" -> 1048
      [] mode = "ExtendedAltScreen" -> 1049
      [] mode = "BatchedRendering" -> 2026
      [] mode = "TextReflow" -> 2027
      [] OTHER -> 1234

\* reply(fmt, args...)
reply(s, text) == [s EXCEPT !.replyData = Append(@, text)]

\* ModeResponse: NotRecognized = 0, Set = 1, Reset = 2.
requestAnsiMode(s, mode) ==
    LET modeResponse == IF isValidAnsiMode(mode)
                        THEN IF isModeEnabled(s, mode) THEN 1 ELSE 2
                        ELSE 0
    IN  reply(s, "\\033[" \o ToString(toAnsiModeNum(mode)) \o ";"
                    \o ToString(modeResponse) \o "$y")

requestDECMode(s, mode) ==
    LET modeResponse == IF isValidDECMode(mode)
                        THEN IF isModeEnabled(s, mode) THEN 1 ELSE 2
                        ELSE 0
    IN  reply(s, "\\033[" \o ToString(toDECModeNum(mode)) \o ";"
                    \o ToString(modeResponse) \o "$y")

(***************************************************************************)
(* DECRQM: setting and querying ANSI and DEC modes, one of each kind       *)
(* outside the enumeration, from the screen of the mode save/restore       *)
(* specification.                                                          *)
(***************************************************************************)
RequestAnsiMode ==
    \E m \in {"Insert", "Unknown1234"} :
        Apply(requestAnsiMode(Cur, m), "requestAnsiMode", <<m>>)
RequestDECMode ==
    \E m \in {"Origin", "Unknown1234"} :
        Apply(requestDECMode(Cur, m), "requestDECMode", <<m>>)
NextModeReport ==
    \/ SetAnsiMode
    \/ SetMode({"Origin", "Unknown1234"})
    \/ RequestAnsiMode
    \/ RequestDECMode
SpecModeReport == InitModes /\ [][NextModeReport]_vars

\* C11: DECRQM replies ESC [ <code> ; <n> $ y for an ANSI mode and
\* ESC [ ? <code> ; <n> $ y for a DEC private mode, with n = 1 iff the mode is
\* set, n = 2 iff it is a known mode that is reset, and n = 0 for an unknown
\* mode, also after an attempt to set it.
C11_ModeReport ==
    LET n(known) == IF lastOp.args[1] \notin known THEN 0
                    ELSE IF lastOp.args[1] \in modes_.enabled THEN 1 ELSE 2
        last == replyData[Len(replyData)]
    IN  /\ lastOp.name = "requestAnsiMode" =>
              last = "\\033[" \o ToString(toAnsiModeNum(lastOp.args[1])) \o ";"
                        \o ToString(n(AnsiModes)) \o "$y"
        /\ lastOp.name = "requestDECMode" =>
              last = "\\033[?" \o ToString(toDECModeNum(lastOp.args[1])) \o ";"
                        \o ToString(n(DECModes)) \o "$y"

(***************************************************************************)
(* Scrolling and the history.                                              *)
(***************************************************************************)
\* insertLines(n) / deleteLines(n): scroll the lines from the cursor's to the
\* bottom margin down / up.
insertLines(s, n) ==
    IF isCursorInsideMargins(s)
    THEN scrollDownIn(s, n, [s.margin EXCEPT !.top = s.cursor.position.row])
    ELSE s
deleteLines(s, n) ==
    IF isCursorInsideMargins(s)
    THEN scrollUpIn(s, n, [s.margin EXCEPT !.top = s.cursor.position.row])
    ELSE s

ScrollUp == \E n \in 0..MaxMove : Apply(scrollUp(Cur, n), "scrollUp", <<n>>)
ScrollDown == \E n \in 0..MaxMove : Apply(scrollDown(Cur, n), "scrollDown", <<n>>)
InsertLines == \E n \in 0..MaxMove : Apply(insertLines(Cur, n), "insertLines", <<n>>)
DeleteLines == \E n \in 0..MaxMove : Apply(deleteLines(Cur, n), "deleteLines", <<n>>)

\* A page of 3 lines and 4 columns as constructed, or with DECSTBM 2;3, or with
\* DECLRMM and DECSLRM 2;4, or with all of these and origin mode.
MaxStepsScroll == 4
InitScroll ==
    \/ Start(Screen([width |-> 4, height |-> 3], MaxHistory), MaxStepsScroll)
    \/ Start(setTopBottomMargin(Screen([width |-> 4, height |-> 3], MaxHistory), 2, 3),
             MaxStepsScroll)
    \/ Start(WithLeftRightMargin(Screen([width |-> 4, height |-> 3], MaxHistory)),
             MaxStepsScroll)
    \/ Start(setMode(setTopBottomMargin(
                        WithLeftRightMargin(Screen([width |-> 4, height |-> 3], MaxHistory)),
                        2, 3),
                    "Origin", TRUE),
             MaxStepsScroll)
NextScroll ==
    \/ WriteText({"a", "b"})
    \/ MoveCursorTo
    \/ Linefeed
    \/ Index
    \/ ReverseIndex
    \/ ScrollUp
    \/ ScrollDown
    \/ InsertLines
    \/ DeleteLines
    \/ SetMode({"UseAlternateScreen"})
SpecScroll == InitScroll /\ [][NextScroll]_vars

\* C12: scroll-up pushes the displaced top lines into the history if and only
\* if the scroll margin spans the full page width and the active grid is the
\* primary grid; the pushed lines keep their order, the line displaced last
\* being the newest of the history, and the oldest lines are dropped beyond
\* max_history_lines.  Scroll-down, RI and IL never change the history.
C12_ScrollHistory ==
    [][LET act == activeGrid(Cur)
           fullWidth == margin_.left = 1 /\ margin_.right = size_.width
           n == Min(IF lastOp'.name = "scrollUp" THEN lastOp'.args[1] ELSE 1,
                    margin_.bottom - margin_.top + 1)
           pushed == LastN(grids_[act].history
                             \o SubSeq(grids_[act].page, margin_.top, margin_.top + n - 1),
                           grids_[act].maxHistory)
       IN  /\ (\/ lastOp'.name = "scrollUp"
               \/ lastOp'.name = "index" /\ cursor_.position.row = margin_.bottom) =>
                  grids_'[act].history = IF act = "primary" /\ fullWidth THEN pushed
                                         ELSE grids_[act].history
           /\ lastOp'.name \in {"scrollDown", "reverseIndex", "insertLines"} =>
                  /\ grids_'.primary.history = grids_.primary.history
                  /\ grids_'.alternate.history = grids_.alternate.history
           /\ grids_'.primary.history # grids_.primary.history =>
                  act = "primary" /\ fullWidth
           /\ grids_'.alternate.history = << >>
      ]_vars

\* A scroll-up by two lines of the primary grid under full-width margins left
\* the history full, a written line being its oldest one.
C12_Witness ==
    /\ lastOp.name = "scrollUp"
    /\ lastOp.args = <<2>>
    /\ screenType_ = "Main"
    /\ margin_.left = 1 /\ margin_.right = size_.width
    /\ Len(grids_.primary.history) = MaxHistory
    /\ \E c \in 1..size_.width : grids_.primary.history[1].cells[c].ch = "b"

\* The cells of the active page after the margin rectangle has scrolled by one
\* line, up (dir = 1) or down (dir = -1): cells outside the rectangle stay, a
\* cell inside takes the cell of the line below (above), the vacated line is
\* blank.
ScrolledByOne(dir, r, c) ==
    IF r < margin_.top \/ r > margin_.bottom \/ c < margin_.left \/ c > margin_.right
    THEN grid(Cur).page[r].cells[c].ch
    ELSE IF r + dir >= margin_.top /\ r + dir <= margin_.bottom
    THEN grid(Cur).page[r + dir].cells[c].ch
    ELSE ""
PageText(g) == [r \in 1..Len(g.page) |-> [c \in 1..Len(g.page[r].cells) |->
                   g.page[r].cells[c].ch]]

\* C13: IND and RI scroll only when the cursor is on the bottom (IND) or top
\* (RI) margin line, scrolling the margin rectangle by one line and leaving the
\* cursor in place; on any other line they move the cursor one line down (up)
\* without changing any cell, and on the last (first) page line outside the
\* margins they change nothing.
C13_IndexReverseIndex ==
    [][LET row == cursor_.position.row
           moved(dir) ==
               /\ PageText(grid(Cur)') = PageText(grid(Cur))
               /\ cursor_'.position = [cursor_.position EXCEPT !.row = row + dir]
           scrolled(dir) ==
               /\ PageText(grid(Cur)') =
                     [r \in 1..size_.height |-> [c \in 1..size_.width |->
                         ScrolledByOne(dir, r, c)]]
               /\ cursor_'.position = cursor_.position
       IN  /\ lastOp'.name = "index" =>
                 IF row = margin_.bottom THEN scrolled(1)
                 ELSE IF row = size_.height THEN moved(0)
                 ELSE moved(1)
           /\ lastOp'.name = "reverseIndex" =>
                 IF row = margin_.top THEN scrolled(-1)
                 ELSE IF row = 1 THEN moved(0)
                 ELSE moved(-1)
      ]_vars

\* IND with the cursor on the bottom line of the margins 2..3 scrolled a
\* written line to the top margin line.
C13_Witness ==
    /\ lastOp.name = "index"
    /\ lastOp.pos.row = margin_.bottom
    /\ margin_.top = 2
    /\ \E c \in 1..size_.width : grid(Cur).page[2].cells[c].ch # ""
    /\ \A c \in 1..size_.width : grid(Cur).page[3].cells[c].ch = ""

\* C14: after CUP (moveCursorTo) wrap_pending is clear and the cursor is the
\* target clamped into the addressable region: the whole page when origin mode
\* is off; with origin mode on the target is relative to the margin origin and
\* the resulting cursor is inside the scrolling rectangle.
C14_MoveCursorToClamps ==
    lastOp.name = "moveCursorTo" =>
        /\ wrapPending_ = 0
        /\ IF cursor_.originMode
           THEN /\ cursor_.position.row =
                       Clamp(lastOp.args[1] + margin_.top - 1, margin_.top, margin_.bottom)
                /\ cursor_.position.column =
                       Clamp(lastOp.args[2] + margin_.left - 1, margin_.left, margin_.right)
           ELSE /\ cursor_.position.row = Clamp(lastOp.args[1], 1, size_.height)
                /\ cursor_.position.column = Clamp(lastOp.args[2], 1, size_.width)

(***************************************************************************)
(* Hyperlinks: OSC 8 with and without an id, writing, erasing and both     *)
(* buffers on a page of 2 lines and 2 columns.                             *)
(***************************************************************************)
MaxStepsHyperlink == 4
SetHyperlink ==
    \E id \in {"", "i", "j"}, uri \in {"", "u"} :
        Apply(hyperlink(Cur, id, uri), "hyperlink", <<id, uri>>)
\* ED 0 walks from the line after currentLine_ to the end of the active grid's
\* page.  While currentLine_ points into the other grid that end is never
\* reached (undefined): the walk ends with the iterator's own page, or the
\* program stops.
ClearToEndOfScreen ==
    \/ Apply(clearToEndOfScreen(Cur), "clearToEndOfScreen", << >>)
    \/ /\ currentLine_ # activeGrid(Cur)
       /\ StoreMembers(Cur, "clearToEndOfScreen", << >>)
       /\ steps' = 0
       /\ UNCHANGED <<modeLog, inputQueue, inputLog>>
InitHyperlink == Start(Screen(ModesPage, MaxHistory), MaxStepsHyperlink)
NextHyperlink ==
    \/ SetHyperlink
    \/ WriteText({"a"})
    \/ MoveCursorTo
    \/ ClearToEndOfScreen
    \/ SetMode({"UseAlternateScreen"})
SpecHyperlink == InitHyperlink /\ [][NextHyperlink]_vars

\* The ids of the hyperlinks some cell of either grid (page or history) or the
\* current hyperlink refers to.
ReferencedIds ==
    LET links(g) == {AllLines(g)[k].cells[c].link :
                        k \in 1..Len(AllLines(g)), c \in 1..size_.width}
    IN  {l.id : l \in (links(grids_.primary) \cup links(grids_.alternate)
                        \cup {currentHyperlink_}) \ {NoLink}} \ {""}

\* C15: the hyperlink registry holds exactly one entry per distinct non-empty id
\* that a cell or the current hyperlink still refers to: links of one id share an
\* entry, a link without id has none, and an entry is gone once nothing refers
\* to it.
C15_HyperlinkRegistry ==
    /\ {l.id : l \in hyperlinks_} = ReferencedIds
    /\ Cardinality(hyperlinks_) = Cardinality(ReferencedIds)

(***************************************************************************)
(* SGR: every rendition and the three color setters, with writes and       *)
(* cursor movement in between, on a page of 2 lines and 2 columns.         *)
(***************************************************************************)
MaxStepsSgr == 3
Renditions ==
    {"Reset"} \cup SetRenditions
        \cup {"Normal", "NoItalic", "NoUnderline", "NoBlinking", "NoInverse", "NoHidden",
              "NoCrossedOut", "NoFramed", "NoOverline"}
Colors == {"Default", "Red"}
SelectGraphicRendition ==
    \E r \in Renditions : Apply(setGraphicsRendition(Cur, r), "setGraphicsRendition", <<r>>)
SetForegroundColor ==
    \E c \in Colors : Apply(setForegroundColor(Cur, c), "setForegroundColor", <<c>>)
SetBackgroundColor ==
    \E c \in Colors : Apply(setBackgroundColor(Cur, c), "setBackgroundColor", <<c>>)
SetUnderlineColor ==
    \E c \in Colors : Apply(setUnderlineColor(Cur, c), "setUnderlineColor", <<c>>)
InitSgr == Start(Screen(ModesPage, MaxHistory), MaxStepsSgr)
NextSgr ==
    \/ SelectGraphicRendition
    \/ SetForegroundColor
    \/ SetBackgroundColor
    \/ SetUnderlineColor
    \/ WriteText({"a"})
    \/ MoveCursorTo
SpecSgr == InitSgr /\ [][NextSgr]_vars

\* The reset code of each style flag that has one.
MatchingReset ==
    [Bold |-> "Normal", Faint |-> "Normal", Italic |-> "NoItalic", Underline |-> "NoUnderline",
     Blinking |-> "NoBlinking", Inverse |-> "NoInverse", Hidden |-> "NoHidden",
     CrossedOut |-> "NoCrossedOut", Framed |-> "NoFramed", Overline |-> "NoOverline"]
\* The effect of one SGR operation on a rendition.
SgrEffect(op, r) ==
    CASE op.name = "setForegroundColor" -> [r EXCEPT !.fg = op.args[1]]
      [] op.name = "setBackgroundColor" -> [r EXCEPT !.bg = op.args[1]]
      [] op.name = "setUnderlineColor" -> [r EXCEPT !.ul = op.args[1]]
      [] op.name = "setGraphicsRendition" /\ op.args[1] = "Reset" ->
           [styles |-> {}, fg |-> "Default", bg |-> "Default", ul |-> "Default"]
      [] op.name = "setGraphicsRendition" /\ op.args[1] \in SetRenditions ->
           [r EXCEPT !.styles = @ \cup {op.args[1]}]
      [] op.name = "setGraphicsRendition" /\ op.args[1] \notin SetRenditions \cup {"Reset"} ->
           [r EXCEPT !.styles =
                {f \in @ : f \notin DOMAIN MatchingReset \/ MatchingReset[f] # op.args[1]}]
      [] OTHER -> r

\* C16: every SGR operation changes the cursor's rendition by the effect of its
\* code alone (a set code adds its flag, the matching reset code removes it, a
\* color code replaces that color, SGR 0 leaves no flag and Default foreground,
\* background and underline colors), whatever the grid and the cursor are, so
\* the rendition after a sequence is the left fold of the effects; no other
\* operation changes it.
C16_SgrIsFold ==
    [][cursor_'.graphicsRendition = SgrEffect(lastOp', cursor_.graphicsRendition)]_vars

\* SGR 22 (Normal) removed Bold and Faint after a cell was written.
C16_Witness ==
    /\ lastOp.name = "setGraphicsRendition" /\ lastOp.args = <<"Normal">>
    /\ cursor_.graphicsRendition.styles = {}
    /\ \E r \in 1..size_.height, c \in 1..size_.width :
          /\ grid(Cur).page[r].cells[c].ch = "a"
          /\ grid(Cur).page[r].cells[c].sgr.styles = {"Faint"}

(***************************************************************************)
(* terminal::InputGenerator: the byte queue and Control + character.       *)
(* Characters are code points, bytes are 0..255.                           *)
(***************************************************************************)
\* generateRaw(bytes): append to the queue.
generateRaw(q, bytes) == q \o bytes
\* peek(): all pending bytes.
peek(q) == q

\* consume(n) that drops the last n pending bytes.
MutConsumeDropsLast(q, n) == SubSeq(q, 1, Len(q) - n)

\* consume(n): drop the first n pending bytes.
consume(q, n) == SubSeq(q, n + 1, Len(q))

\* Control + character that emits the character itself.
MutCtrlByteIsChar(ch) == ch

\* The byte of Control + character: letter AND 0x1F for 'A'..'Z', and the C0
\* codes of space, '[', '\', ']', '^' and '_'.
CtrlByte(ch) ==
    IF ch \in 65..90 THEN ch % 32
    ELSE CASE ch = 32 -> 0
           [] ch = 91 -> 27
           [] ch = 92 -> 28
           [] ch = 93 -> 29
           [] ch = 94 -> 30
           [] ch = 95 -> 31
\* generate(ch, Modifier::Control)
generate(q, ch) == generateRaw(q, <<CtrlByte(ch)>>)

MaxStepsInput == 3
CtrlChars == 65..90 \cup {32} \cup 91..95
InputOp(q, log, name, args) ==
    /\ Store(Cur, name, args)
    /\ UNCHANGED modeLog
    /\ inputQueue' = q
    /\ inputLog' = log
GenerateRaw ==
    \E bytes \in {<<65>>, <<97, 98>>} :
        InputOp(generateRaw(inputQueue, bytes),
                [inputLog EXCEPT !.generated = @ \o bytes], "generateRaw", bytes)
Generate ==
    \E ch \in CtrlChars :
        InputOp(generate(inputQueue, ch),
                [inputLog EXCEPT !.generated = @ \o SubSeq(generate(inputQueue, ch),
                                                            Len(inputQueue) + 1,
                                                            Len(generate(inputQueue, ch)))],
                "generate", <<ch>>)
Peek == InputOp(inputQueue, [inputLog EXCEPT !.peeked = peek(inputQueue)], "peek", << >>)
Consume ==
    \E n \in 1..Len(inputQueue) :
        InputOp(consume(inputQueue, n), [inputLog EXCEPT !.consumed = @ + n], "consume", <<n>>)
InitInput == Start(Screen(ModesPage, MaxHistory), MaxStepsInput)
NextInput ==
    \/ GenerateRaw
    \/ Generate
    \/ Peek
    \/ Consume
SpecInput == InitInput /\ [][NextInput]_vars

\* The generated bytes that were not consumed, in generation order.
NotConsumed == SubSeq(inputLog.generated, inputLog.consumed + 1, Len(inputLog.generated))

\* C17: the output queue is first in, first out: whatever generate and
\* consume(n) calls (n at most the pending length) came before, peek() returns
\* the generated bytes not yet consumed in generation order and leaves the queue
\* as it is, and consume(n) removes the first n pending bytes.
C17_QueueIsFifo ==
    /\ peek(inputQueue) = NotConsumed
    /\ lastOp.name = "peek" => inputLog.peeked = NotConsumed

\* Bytes were consumed from a queue that still holds later bytes, and peeked.
C17_Witness ==
    /\ lastOp.name = "peek"
    /\ inputLog.consumed = 1
    /\ inputLog.peeked = <<98>>

\* C18: a character with only the Control modifier appends exactly one byte:
\* 0x01..0x1A for 'A'..'Z', 0x00 for space, 0x1B for '[', 0x1C for '\', 0x1D
\* for ']', 0x1E for '^' and 0x1F for '_'.
C18_ControlCharacter ==
    [][lastOp'.name = "generate" =>
        LET ch == lastOp'.args[1]
        IN  inputQueue' = Append(inputQueue,
                CASE ch \in 65..90 -> ch - 65 + 1
                  [] ch = 32 -> 0
                  [] ch \in 91..95 -> ch - 91 + 27)]_vars

\* Control + 'Z' appended 0x1A to a queue that was not empty.
C18_Witness ==
    /\ lastOp.name = "generate" /\ lastOp.args = <<90>>
    /\ Len(inputQueue) > 1
    /\ inputQueue[Len(inputQueue)] = 26

(***************************************************************************)
(* Screen capture: captureBuffer(_lineCount, false).  Line numbers are     *)
(* relative to the page: 1..height the page, 0 and below the history.      *)
(***************************************************************************)
PageSize == 4096
\* Grid::lineAt(row)
lineAt(s, row) == AllLines(grid(s))[row + historyLineCount(s)]
\* Line::blank(): no cell of the line holds a codepoint.
blank(line) == \A c \in 1..Len(line.cells) : line.cells[c].ch = ""
\* The cells lo..hi as the writer receives them: a space for a cell without
\* codepoints.
RECURSIVE WriteCells(_, _, _)
WriteCells(cells, lo, hi) ==
    IF lo > hi THEN ""
    ELSE IF lo = hi THEN (IF cells[lo].ch = "" THEN " " ELSE cells[lo].ch)
    ELSE WriteCells(cells, lo, (lo + hi) \div 2) \o WriteCells(cells, (lo + hi) \div 2 + 1, hi)
\* trimSpaceRight(value)
RECURSIVE trimSpaceRight(_)
trimSpaceRight(value) ==
    IF Len(value) > 0 /\ SubSeq(value, Len(value), Len(value)) = " "
    THEN trimSpaceRight(SubSeq(value, 1, Len(value) - 1))
    ELSE value
\* The loop over the rows startLine .. size_.height.
RECURSIVE CaptureRows(_, _, _)
CaptureRows(s, row, capturedBuffer) ==
    IF row > s.size.height THEN capturedBuffer
    ELSE CaptureRows(s, row + 1,
            (IF blank(lineAt(s, row)) THEN capturedBuffer
             ELSE trimSpaceRight(capturedBuffer
                                    \o WriteCells(lineAt(s, row).cells, 1, s.size.width)))
            \o "\n")
\* while (endsWith(capturedBuffer, "\n\n")) capturedBuffer.pop_back();
RECURSIVE DropTrailingNewlines(_)
DropTrailingNewlines(capturedBuffer) ==
    IF Len(capturedBuffer) >= 2
        /\ SubSeq(capturedBuffer, Len(capturedBuffer) - 1, Len(capturedBuffer)) = "\n\n"
    THEN DropTrailingNewlines(SubSeq(capturedBuffer, 1, Len(capturedBuffer) - 1))
    ELSE capturedBuffer
\* The replies for the chunks of PageSize bytes from offset i on.
RECURSIVE ReplyChunks(_, _, _)
ReplyChunks(s, capturedBuffer, i) ==
    IF i >= Len(capturedBuffer) THEN s
    ELSE ReplyChunks(reply(s, "\\033]314;"
                                \o SubSeq(capturedBuffer, i + 1,
                                          i + Min(PageSize, Len(capturedBuffer) - i))
                                \o "\\033\\\\"),
                     capturedBuffer, i + PageSize)

\* captureBuffer(_lineCount, false), std::clamp evaluated by its comparisons.
captureBuffer(s, lineCount) ==
    LET relativeStartLine == s.size.height - lineCount + 1
        startLine == Clamp(1 - historyLineCount(s), relativeStartLine, s.size.height)
    IN  reply(ReplyChunks(s, DropTrailingNewlines(CaptureRows(s, startLine, "")), 0),
              "\\033]314;\\033\\\\")

MaxStepsCapture == 5
MaxCapture == 5
\* std::clamp(v, lo, hi) with hi < lo is undefined: the build evaluates the
\* comparisons of clamp (the result is lo), or its precondition check stops the
\* program before any reply.
CaptureBuffer ==
    \E n \in 0..MaxCapture :
        \/ Apply(captureBuffer(Cur, n), "captureBuffer", <<n>>)
        \/ /\ size_.height < size_.height - n + 1
           /\ StoreMembers(Cur, "captureBuffer", <<n>>)
           /\ steps' = 0
           /\ UNCHANGED <<modeLog, inputQueue, inputLog>>
InitCapture == Start(Screen(ModesPage, MaxHistory), MaxStepsCapture)
NextCapture ==
    \/ WriteText({"a"})
    \/ Linefeed
    \/ CaptureBuffer
SpecCapture == InitCapture /\ [][NextCapture]_vars

\* The text of a line: its cells up to the last one that holds a character
\* other than a space.
RECURSIVE LineText(_, _)
LineText(cells, n) ==
    IF n = 0 THEN ""
    ELSE IF cells[n].ch \in {"", " "} THEN LineText(cells, n - 1)
    ELSE WriteCells(cells, 1, n)
\* The lines from..to of the history and the page, each followed by a newline.
RECURSIVE LinesText(_, _, _)
LinesText(lines, from, to) ==
    IF from > to THEN ""
    ELSE LineText(lines[from].cells, Len(lines[from].cells)) \o "\n"
            \o LinesText(lines, from + 1, to)
\* A text cut into chunks of at most PageSize bytes, each in its reply.
RECURSIVE Chunked(_)
Chunked(text) ==
    IF text = "" THEN << >>
    ELSE <<"\\033]314;" \o SubSeq(text, 1, Min(PageSize, Len(text))) \o "\\033\\\\">>
            \o Chunked(SubSeq(text, Min(PageSize, Len(text)) + 1, Len(text)))

\* C19: captureBuffer(n, physical lines) replies with the last
\* min(n, history lines + page lines) lines from top to bottom, each followed by
\* a newline, in ESC ] 314 ; <chunk> ESC \ replies of at most 4096 bytes each,
\* and then with exactly one ESC ] 314 ; ESC \; for n = 0 that is the only reply.
C19_CaptureBuffer ==
    [][lastOp'.name = "captureBuffer" =>
        LET lines == AllLines(grid(Cur))
            n == Min(lastOp'.args[1], Len(lines))
        IN  replyData' = replyData \o Chunked(LinesText(lines, Len(lines) - n + 1, Len(lines)))
                            \o <<"\\033]314;\\033\\\\">>]_vars

(***************************************************************************)
(* DECTABSR: the tab stop report on a page of 1 line and 10 columns.       *)
(***************************************************************************)
\* The numbers of a sequence separated by '/'.
RECURSIVE JoinColumns(_)
JoinColumns(columns) ==
    IF columns = << >> THEN ""
    ELSE IF Len(columns) = 1 THEN ToString(columns[1])
    ELSE ToString(columns[1]) \o "/" \o JoinColumns(Tail(columns))
requestTabStops(s) ==
    reply(s, "\\033P2$u"
             \o (IF s.tabs # << >> THEN JoinColumns(s.tabs)
                 ELSE IF tabWidth_ # 0
                 THEN JoinColumns(<<1>> \o [i \in 1..((s.size.width - 1) \div tabWidth_) |->
                                               i * tabWidth_ + 1])
                 ELSE "")
             \o "\\033\\\\")

MaxStepsTabs == 4
TabsPage == [width |-> 10, height |-> 1]
ClearAllTabs == Apply(clearAllTabs(Cur), "clearAllTabs", << >>)
ClearTabUnderCursor == Apply(clearTabUnderCursor(Cur), "clearTabUnderCursor", << >>)
RequestTabStops == Apply(requestTabStops(Cur), "requestTabStops", << >>)
InitTabs == Start(Screen(TabsPage, MaxHistory), MaxStepsTabs)
NextTabs ==
    \/ MoveCursorTo
    \/ HorizontalTabSet
    \/ ClearAllTabs
    \/ ClearTabUnderCursor
    \/ RequestTabStops
SpecTabs == InitTabs /\ [][NextTabs]_vars

\* The columns of a set in ascending order.
RECURSIVE Ascending(_)
Ascending(columns) ==
    IF columns = {} THEN << >>
    ELSE LET least == CHOOSE c \in columns : \A d \in columns : c <= d
         IN  <<least>> \o Ascending(columns \ {least})

\* C20: the tab stop report is ESC P 2 $ u <list> ESC \ with the '/'-separated,
\* strictly ascending list of the columns of the current tab stops: the stops
\* set explicitly when there are any, otherwise (also after TBC clear-all) the
\* implicit stops 1, 1 + w, 1 + 2w, ... up to the page width for tab width w.
C20_TabStopReport ==
    lastOp.name = "requestTabStops" =>
        replyData[Len(replyData)] =
            "\\033P2$u"
            \o JoinColumns(Ascending(
                    IF tabs_ # << >> THEN {tabs_[i] : i \in 1..Len(tabs_)}
                    ELSE {c \in 1..size_.width : (c - 1) % tabWidth_ = 0}))
            \o "\\033\\\\"

(***************************************************************************)
(* Markers: setMark and the marker search over the absolute lines          *)
(* 0 .. history + page - 1 (0 the oldest history line), on a page of       *)
(* 2 lines and 2 columns.  A search result is the empty set or one line.   *)
(***************************************************************************)
setMark(s) ==
    [s EXCEPT !.grids[s.currentLine].page[s.cursor.position.row].marked = TRUE]
\* Grid::absoluteLineAt(i)
absoluteLineAt(s, i) == AllLines(grid(s))[i + 1]

findMarkerBackward(s, currentCursorLine) ==
    IF currentCursorLine < 0 \/ ~isPrimaryScreen(s) THEN {}
    ELSE LET from == Min(currentCursorLine, historyLineCount(s) + s.size.height)
             found == {i \in 0..(from - 1) : absoluteLineAt(s, i).marked}
         IN  {i \in found : \A j \in found : j <= i}

findMarkerForward(s, currentCursorLine) ==
    IF currentCursorLine < 0 \/ ~isPrimaryScreen(s) THEN {}
    ELSE LET found == {i \in (currentCursorLine + 1)..(historyLineCount(s) + s.size.height - 1) :
                          absoluteLineAt(s, i).marked}
         IN  {i \in found : \A j \in found : i <= j}

MaxStepsMarker == 5
MarkerLines == -1..5
SetMark == Apply(setMark(Cur), "setMark", << >>)
FindMarkerBackward ==
    \E l \in MarkerLines : Apply(Cur, "findMarkerBackward", <<l, findMarkerBackward(Cur, l)>>)
FindMarkerForward ==
    \E l \in MarkerLines : Apply(Cur, "findMarkerForward", <<l, findMarkerForward(Cur, l)>>)
InitMarker == Start(Screen(ModesPage, MaxHistory), MaxStepsMarker)
NextMarker ==
    \/ SetMark
    \/ Linefeed
    \/ SetMode({"UseAlternateScreen"})
    \/ FindMarkerBackward
    \/ FindMarkerForward
SpecMarker == InitMarker /\ [][NextMarker]_vars

\* The marked lines of the history and the page of the primary grid.
MarkedLines ==
    {i \in 0..(Len(AllLines(grids_.primary)) - 1) : AllLines(grids_.primary)[i + 1].marked}

\* C21: findMarkerBackward(l) is the greatest marked line of the primary grid's
\* history and page strictly before l, findMarkerForward(l) the smallest one
\* strictly after l; the result is none when there is no such line and when the
\* alternate screen is active; the search changes no state.
C21_MarkerSearch ==
    /\ lastOp.name = "findMarkerBackward" =>
          lastOp.args[2] =
              IF screenType_ # "Main" THEN {}
              ELSE {i \in MarkedLines : i < lastOp.args[1]
                                        /\ \A j \in MarkedLines : j < lastOp.args[1] => j <= i}
    /\ lastOp.name = "findMarkerForward" =>
          lastOp.args[2] =
              IF screenType_ # "Main" THEN {}
              ELSE {i \in MarkedLines : i > lastOp.args[1]
                                        /\ \A j \in MarkedLines : j > lastOp.args[1] => i <= j}

\* C22: setting or resetting DECOM sets origin mode accordingly and moves the
\* cursor to the top left cell of the now-active region: of the margins when
\* origin mode was switched on, of the page when it was switched off.
C22_OriginModeHomesCursor ==
    lastOp.name = "setMode" /\ lastOp.args[1] = "Origin" =>
        /\ cursor_.originMode = lastOp.args[2]
        /\ cursor_.position = IF lastOp.args[2]
                              THEN [row |-> margin_.top, column |-> margin_.left]
                              ELSE [row |-> 1, column |-> 1]

(***************************************************************************)
(* Alternate screen: DECALTBUF (UseAlternateScreen), 1049                  *)
(* (ExtendedAltScreen) and DECSC/DECRC (SaveCursor) with writes and cursor *)
(* movement, from the screens of the scroll specification.                 *)
(***************************************************************************)
NextAltScreen ==
    \/ WriteText({"a"})
    \/ MoveCursorTo
    \/ SetMode({"UseAlternateScreen", "ExtendedAltScreen", "SaveCursor"})
SpecAltScreen == InitScroll /\ [][NextAltScreen]_vars

\* No cell of the grid's page holds a character.
IsCleared(g) ==
    \A r \in 1..Len(g.page) : \A c \in 1..Len(g.page[r].cells) : g.page[r].cells[c].ch = ""

MaxStepsMargins == 3
InitMargins ==
    \/ Start(Screen(WrapPage, MaxHistory), MaxStepsMargins)
    \/ Start(WithLeftRightMargin(Screen(WrapPage, MaxHistory)), MaxStepsMargins)
    \/ Start(setMode(WithLeftRightMargin(Screen(WrapPage, MaxHistory)), "Origin", TRUE),
             MaxStepsMargins)
NextMargins ==
    \/ WriteText({"a"})
    \/ MoveCursorTo
    \/ MoveCursorForward
    \/ MoveCursorBackward
    \/ Backspace
    \/ SetTopBottomMargin
    \/ SetLeftRightMargin
    \/ SetMode({"Origin", "LeftRightMargin"})
SpecMargins == InitMargins /\ [][NextMargins]_vars

\* C24: a DECSTBM with top < bottom, and with DECLRMM on a DECSLRM with
\* left + 1 < right, sets the margins, moves the cursor to the origin of the
\* region now active (the margin origin under origin mode, the page origin
\* otherwise) and clears wrap_pending; a DECSTBM with top >= bottom, a DECSLRM
\* with a narrower range and every DECSLRM while DECLRMM is off leave margins
\* and cursor as they are.
C24_MarginsHomeCursor ==
    [][/\ lastOp'.name = "setTopBottomMargin" =>
            IF lastOp'.args[1] < Min(lastOp'.args[2], size_.height)
            THEN /\ margin_' = [margin_ EXCEPT !.top = lastOp'.args[1],
                                               !.bottom = Min(lastOp'.args[2], size_.height)]
                 /\ wrapPending_' = 0
                 /\ cursor_' = [cursor_ EXCEPT !.position =
                        IF cursor_.originMode
                        THEN [row |-> lastOp'.args[1], column |-> margin_.left]
                        ELSE [row |-> 1, column |-> 1]]
            ELSE margin_' = margin_ /\ cursor_' = cursor_ /\ wrapPending_' = wrapPending_
       /\ lastOp'.name = "setLeftRightMargin" =>
            IF /\ "LeftRightMargin" \in modes_.enabled
               /\ lastOp'.args[1] + 1 < Min(lastOp'.args[2], size_.width)
            THEN /\ margin_' = [margin_ EXCEPT !.left = lastOp'.args[1],
                                               !.right = Min(lastOp'.args[2], size_.width)]
                 /\ wrapPending_' = 0
                 /\ cursor_' = [cursor_ EXCEPT !.position =
                        IF cursor_.originMode
                        THEN [row |-> margin_.top, column |-> lastOp'.args[1]]
                        ELSE [row |-> 1, column |-> 1]]
            ELSE margin_' = margin_ /\ cursor_' = cursor_ /\ wrapPending_' = wrapPending_
      ]_vars

\* A DECSTBM under origin mode, with wrap_pending set and the cursor at the
\* right margin, moved the cursor to the margin origin in column 2.
C24_Witness ==
    /\ lastOp.name = "setTopBottomMargin" /\ lastOp.args = <<1, 2>>
    /\ lastOp.wp = 1 /\ lastOp.pos.column = 4
    /\ cursor_.originMode
    /\ cursor_.position = [row |-> 1, column |-> 2]
    /\ wrapPending_ = 0

\* C25: CUU(n) moves the cursor up by min(n, d) lines, d being the distance to
\* the top margin when the cursor is on or below it and the distance to the
\* first page line when it is above; CUD(n) likewise with the bottom margin and
\* the last page line; the column is unchanged; with origin mode off and on.
C25_CursorUpDown ==
    /\ lastOp.name = "moveCursorUp" =>
          /\ cursor_.position.column = lastOp.pos.column
          /\ cursor_.position.row =
                lastOp.pos.row - Min(lastOp.args[1],
                                     IF lastOp.pos.row >= margin_.top
                                     THEN lastOp.pos.row - margin_.top
                                     ELSE lastOp.pos.row - 1)
    /\ lastOp.name = "moveCursorDown" =>
          /\ cursor_.position.column = lastOp.pos.column
          /\ cursor_.position.row =
                lastOp.pos.row + Min(lastOp.args[1],
                                     IF lastOp.pos.row <= margin_.bottom
                                     THEN margin_.bottom - lastOp.pos.row
                                     ELSE size_.height - lastOp.pos.row)

\* C26: CUF(n) / HPR(n) never decreases the cursor column: it leaves the row
\* unchanged and moves the cursor right by min(n, distance to the right edge
\* of the addressable region), the region being the margin rectangle when
\* origin mode is on and the page otherwise.
C26_CursorForward ==
    lastOp.name = "moveCursorForward" =>
        LET edge == IF cursor_.originMode THEN margin_.right ELSE size_.width
        IN  /\ cursor_.position.row = lastOp.pos.row
            /\ cursor_.position.column >= lastOp.pos.column
            /\ cursor_.position.column =
                  lastOp.pos.column + Min(lastOp.args[1], edge - lastOp.pos.column)

\* C27: Backspace and CUB never wrap to the prior line: BS moves the cursor
\* one column left and CUB(n) min(n, column - 1) columns left, both stop at
\* the first column, clear wrap_pending and change neither the cursor row nor
\* any cell.  The column is counted from the page's first column, or under
\* origin mode from the left margin.
MovedLeft(from, to, first, n) == to = from - Min(n, from - first)

C27_BackspaceAndCub ==
    [][lastOp'.name \in {"backspace", "moveCursorBackward"} =>
          LET n == IF lastOp'.name = "backspace" THEN 1 ELSE lastOp'.args[1]
          IN  /\ cursor_'.position.row = cursor_.position.row
              /\ wrapPending_' = 0
              /\ grids_' = grids_
              /\ \/ MovedLeft(cursor_.position.column, cursor_'.position.column, 1, n)
                 \/ /\ cursor_.originMode
                    /\ MovedLeft(cursor_.position.column, cursor_'.position.column,
                                 margin_.left, n)
      ]_vars

(***************************************************************************)
(* Linefeed: LF with LNM set and reset, on the pages of the scrolling      *)
(* specification (with and without margins and origin mode).               *)
(***************************************************************************)
SetNewLineMode ==
    \E enable \in BOOLEAN :
        Apply(setAnsiMode(Cur, "AutomaticNewLine", enable), "setMode",
              <<"AutomaticNewLine", enable>>)
NextLinefeed ==
    \/ WriteText({"a"})
    \/ MoveCursorTo
    \/ Linefeed
    \/ SetNewLineMode
    \/ SetMode({"Origin"})
    \/ SetTopBottomMargin
SpecLinefeed == InitScroll /\ [][NextLinefeed]_vars

\* C28: a linefeed moves the cursor down one line, or on the bottom margin
\* line scrolls the margin rectangle up by one line and leaves the row; with
\* LNM reset the cursor's real column is unchanged and with LNM set the cursor
\* is on the left margin column; for every margin and origin-mode setting.
C28_Linefeed ==
    [][lastOp'.name = "linefeed" =>
          /\ cursor_'.position.column =
                IF "AutomaticNewLine" \in modes_.enabled THEN margin_.left
                ELSE cursor_.position.column
          /\ IF cursor_.position.row = margin_.bottom
             THEN /\ cursor_'.position.row = cursor_.position.row
                  /\ grids_' = scrollUp(Cur, 1).grids
             ELSE cursor_.position.row < size_.height =>
                     /\ cursor_'.position.row = cursor_.position.row + 1
                     /\ grids_' = grids_
      ]_vars

\* C29: SU / SD by n changes only cells inside the margin rectangle: there the
\* content moves up (SU) or down (SD) by min(n, height of the rectangle)
\* lines, the vacated lines hold blank cells with the current SGR background,
\* every cell outside the rectangle and the cursor are unchanged, and n = 0
\* changes nothing.
InsideMargins(r, c) ==
    /\ margin_.top <= r /\ r <= margin_.bottom
    /\ margin_.left <= c /\ c <= margin_.right

C29_ScrollInsideMargins ==
    [][lastOp'.name \in {"scrollUp", "scrollDown"} =>
          LET act == activeGrid(Cur)
              n == Min(lastOp'.args[1], margin_.bottom - margin_.top + 1)
              from(r) == IF lastOp'.name = "scrollUp" THEN r + n ELSE r - n
              old(r, c) == grids_[act].page[r].cells[c]
              new(r, c) == grids_'[act].page[r].cells[c]
          IN  /\ cursor_' = cursor_
              /\ grids_'[backgroundGrid(Cur)] = grids_[backgroundGrid(Cur)]
              /\ lastOp'.args[1] = 0 => grids_' = grids_
              /\ \A r \in 1..size_.height, c \in 1..size_.width :
                    IF ~InsideMargins(r, c) THEN new(r, c) = old(r, c)
                    ELSE IF from(r) \in margin_.top..margin_.bottom
                    THEN new(r, c) = old(from(r), c)
                    ELSE new(r, c) = ScrollFillCell(cursor_.graphicsRendition)
      ]_vars

\* SD(1) with the margins 2..3 / 2..4 moved a written cell from line 2 to
\* line 3, blanked its place and left the written cell outside the margins.
C29_Witness ==
    /\ lastOp.name = "scrollDown" /\ lastOp.args = <<1>>
    /\ margin_ = [top |-> 2, bottom |-> 3, left |-> 2, right |-> 4]
    /\ grid(Cur).page[1].cells[1].ch = "a"
    /\ grid(Cur).page[2].cells[2].ch = ""
    /\ grid(Cur).page[3].cells[2].ch = "b"

(***************************************************************************)
(* Erase: ED 0, ED 1, EL 0, EL 1, EL 2 and ECH on a page of 3 lines and    *)
(* 3 columns that was written full, with the margins and the SGR           *)
(* background changing.                                                    *)
(***************************************************************************)
MaxStepsErase == 3
MaxErase == 4
ErasePage == [width |-> 3, height |-> 3]
ClearToEndOfLine == Apply(clearToEndOfLine(Cur), "clearToEndOfLine", << >>)
ClearToBeginOfLine == Apply(clearToBeginOfLine(Cur), "clearToBeginOfLine", << >>)
ClearLine == Apply(clearLine(Cur), "clearLine", << >>)
\* ED 1 walks from the first line of the active grid's page to currentLine_,
\* with the same two outcomes while currentLine_ points into the other grid.
ClearToBeginOfScreen ==
    \/ Apply(clearToBeginOfScreen(Cur), "clearToBeginOfScreen", << >>)
    \/ /\ currentLine_ # activeGrid(Cur)
       /\ StoreMembers(Cur, "clearToBeginOfScreen", << >>)
       /\ steps' = 0
       /\ UNCHANGED <<modeLog, inputQueue, inputLog>>
EraseCharacters ==
    \E n \in 0..MaxErase : Apply(eraseCharacters(Cur, n), "eraseCharacters", <<n>>)
InitErase ==
    LET RECURSIVE written(_, _)
        written(s, k) == IF k = 0 THEN s ELSE written(writeText(s, "a"), k - 1)
    IN  Start(written(Screen(ErasePage, MaxHistory), ErasePage.width * ErasePage.height),
              MaxStepsErase)
NextErase ==
    \/ MoveCursorTo
    \/ SetBackgroundColor
    \/ SetTopBottomMargin
    \/ SetMode({"Origin", "UseAlternateScreen"})
    \/ ClearToEndOfScreen
    \/ ClearToBeginOfScreen
    \/ ClearToEndOfLine
    \/ ClearToBeginOfLine
    \/ ClearLine
    \/ EraseCharacters
SpecErase == InitErase /\ [][NextErase]_vars

\* C30: an erase operation leaves the cursor where it is and blanks exactly
\* its range: ED 0 from the cursor cell to the end of the page, ED 1 from the
\* start of the page to the cursor cell inclusive, EL 0 / EL 1 / EL 2 the
\* cursor line from the cursor, up to the cursor, and whole, ECH(n) the
\* min(max(n, 1), columns remaining from the cursor) cells from the cursor;
\* every other cell is unchanged and a blanked cell is empty with the current
\* SGR background.
EraseRange(name, args, r, c) ==
    LET row == cursor_.position.row
        col == cursor_.position.column
    IN  CASE name = "clearToEndOfScreen" -> r > row \/ (r = row /\ c >= col)
          [] name = "clearToBeginOfScreen" -> r < row \/ (r = row /\ c <= col)
          [] name = "clearToEndOfLine" -> r = row /\ c >= col
          [] name = "clearToBeginOfLine" -> r = row /\ c <= col
          [] name = "clearLine" -> r = row
          [] name = "eraseCharacters" ->
                /\ r = row /\ c >= col
                /\ c < col + Min(Max(args[1], 1), size_.width - col + 1)

C30_EraseRange ==
    [][lastOp'.name \in {"clearToEndOfScreen", "clearToBeginOfScreen", "clearToEndOfLine",
                         "clearToBeginOfLine", "clearLine", "eraseCharacters"} =>
          LET act == activeGrid(Cur)
          IN  /\ cursor_' = cursor_
              /\ grids_'[backgroundGrid(Cur)] = grids_[backgroundGrid(Cur)]
              /\ grids_'[act].history = grids_[act].history
              /\ \A r \in 1..size_.height, c \in 1..size_.width :
                    IF EraseRange(lastOp'.name, lastOp'.args, r, c)
                    THEN /\ grids_'[act].page[r].cells[c].ch = ""
                         /\ grids_'[act].page[r].cells[c].sgr.bg = cursor_.graphicsRendition.bg
                    ELSE grids_'[act].page[r].cells[c] = grids_[act].page[r].cells[c]
      ]_vars

(***************************************************************************)
(* Insert and delete characters: ICH and DCH on a written page of 2 lines  *)
(* and 5 columns, without margins, with DECSLRM 2;4, and with origin mode. *)
(***************************************************************************)
\* insertCharacters(n) with insertChars(): the cells from the cursor to the
\* right margin are rotated right by n and n cells from the cursor are filled
\* with spaces.  n is cut to the right margin minus the LOGICAL cursor column
\* plus one; when that exceeds the cells between the real cursor column and
\* the right margin, the middle iterator of std::rotate lies before its first
\* (undefined): this operator gives the outcome in which the rotation moves
\* nothing and fill_n stores its n cells, those past the line's end being
\* outside the page.
insertCharacters(s, n0) ==
    LET row == realCursorPosition(s).row
        col == realCursorPosition(s).column
        right == s.margin.right
        n == Min(n0, right - cursorPosition(s).column + 1)
        old(c) == at(s, row, c)
        rotated(c) == IF n <= right - col + 1 /\ c >= col + n /\ c <= right
                      THEN old(c - n) ELSE old(c)
    IN  IF ~isCursorInsideMargins(s) THEN s
        ELSE [s EXCEPT !.grids[activeGrid(s)].page[row].cells =
                [c \in 1..s.size.width |->
                    IF c >= col /\ c < col + n THEN SpaceCell(s.cursor.graphicsRendition)
                    ELSE rotated(c)]]

\* deleteCharacters(n) with deleteChars().
deleteCharacters(s, n0) ==
    LET row == realCursorPosition(s).row
        col == realCursorPosition(s).column
        right == s.margin.right
        n == Min(n0, right - col + 1)
        old(c) == at(s, row, c)
    IN  IF ~isCursorInsideMargins(s) \/ n0 = 0 THEN s
        ELSE updateCursorIterators(
                [s EXCEPT !.grids[activeGrid(s)].page[row].cells =
                    [c \in 1..s.size.width |->
                        IF c < col \/ c > right THEN old(c)
                        ELSE IF c + n <= right THEN old(c + n)
                        ELSE SpaceCell(s.cursor.graphicsRendition)]])

MaxStepsEdit == 3
MaxEdit == 3
EditPage == [width |-> 5, height |-> 2]
\* ICH: besides the outcome of insertCharacters, an undefined std::rotate may
\* stop the program.
InsertCharacters ==
    \E n \in 0..MaxEdit :
        \/ Apply(insertCharacters(Cur, n), "insertCharacters", <<n>>)
        \/ /\ isCursorInsideMargins(Cur)
           /\ Min(n, margin_.right - cursorPosition(Cur).column + 1)
                 > margin_.right - cursor_.position.column + 1
           /\ StoreMembers(Cur, "insertCharacters", <<n>>)
           /\ steps' = 0
           /\ UNCHANGED <<modeLog, inputQueue, inputLog>>
DeleteCharacters ==
    \E n \in 0..MaxEdit : Apply(deleteCharacters(Cur, n), "deleteCharacters", <<n>>)
InitEdit ==
    LET RECURSIVE written(_, _)
        written(s, k) ==
            IF k = 0 THEN s
            ELSE written(writeText(s, IF k % 2 = 0 THEN "a" ELSE "b"), k - 1)
        page == written(Screen(EditPage, MaxHistory), EditPage.width * EditPage.height)
        withMargin == setLeftRightMargin(setMode(page, "LeftRightMargin", TRUE), 2, 4)
    IN  \/ Start(page, MaxStepsEdit)
        \/ Start(withMargin, MaxStepsEdit)
        \/ Start(setMode(withMargin, "Origin", TRUE), MaxStepsEdit)
NextEdit ==
    \/ WriteText({"a"})
    \/ MoveCursorTo
    \/ SetMode({"Origin"})
    \/ InsertCharacters
    \/ DeleteCharacters
SpecEdit == InitEdit /\ [][NextEdit]_vars

\* C31: ICH(n) and DCH(n) change only cells of the cursor line between the
\* cursor column and the right margin inclusive: with m the smaller of n and
\* the number of those cells, ICH moves the cells m columns right, dropping
\* those pushed past the right margin, and blanks m cells from the cursor; DCH
\* moves the cells m columns left and blanks the last m cells before the right
\* margin; all other cells are unchanged, and with the cursor outside the
\* margins or n = 0 nothing changes; with origin mode off and on.
IsBlank(cell) == cell.ch \in {"", " "}

C31_InsertDeleteCharacters ==
    [][lastOp'.name \in {"insertCharacters", "deleteCharacters"} =>
          LET act == activeGrid(Cur)
              row == cursor_.position.row
              col == cursor_.position.column
              inside == isCursorInsideMargins(Cur)
              m == Min(lastOp'.args[1], margin_.right - col + 1)
              old(r, c) == grids_[act].page[r].cells[c]
              new(r, c) == grids_'[act].page[r].cells[c]
          IN  /\ cursor_' = cursor_
              /\ (~inside \/ lastOp'.args[1] = 0) => grids_' = grids_
              /\ \A r \in 1..size_.height, c \in 1..size_.width :
                    IF ~inside \/ r # row \/ c < col \/ c > margin_.right
                    THEN new(r, c) = old(r, c)
                    ELSE IF lastOp'.name = "insertCharacters"
                    THEN IF c < col + m THEN IsBlank(new(r, c)) ELSE new(r, c) = old(r, c - m)
                    ELSE IF c + m <= margin_.right THEN new(r, c) = old(r, c + m)
                         ELSE IsBlank(new(r, c))
      ]_vars

\* C32: IL(n) and DL(n) change only the lines from the cursor line to the
\* bottom margin, between the left and right margins: there the content moves
\* down (IL) or up (DL) by min(n, number of those lines), the vacated lines are
\* blank, every other cell, the cursor and the history are unchanged, and with
\* the cursor outside the margins or n = 0 nothing changes.
C32_InsertDeleteLines ==
    [][lastOp'.name \in {"insertLines", "deleteLines"} =>
          LET act == activeGrid(Cur)
              row == cursor_.position.row
              inside == isCursorInsideMargins(Cur)
              n == Min(lastOp'.args[1], margin_.bottom - row + 1)
              from(r) == IF lastOp'.name = "deleteLines" THEN r + n ELSE r - n
              old(r, c) == grids_[act].page[r].cells[c]
              new(r, c) == grids_'[act].page[r].cells[c]
          IN  /\ cursor_' = cursor_
              /\ grids_'.primary.history = grids_.primary.history
              /\ grids_'.alternate.history = grids_.alternate.history
              /\ (~inside \/ lastOp'.args[1] = 0) => grids_' = grids_
              /\ \A r \in 1..size_.height, c \in 1..size_.width :
                    IF ~inside \/ r < row \/ ~InsideMargins(r, c) THEN new(r, c) = old(r, c)
                    ELSE IF from(r) \in row..margin_.bottom
                    THEN new(r, c) = old(from(r), c)
                    ELSE IsBlank(new(r, c))
      ]_vars

(***************************************************************************)
(* Tab movement: HT, CBT, HTS and TBC on a page of 2 lines and 10 columns  *)
(* (tab width 8), without margins, with DECSLRM 3;9, and with origin mode. *)
(***************************************************************************)
MaxStepsTabMove == 4
TabMovePage == [width |-> 10, height |-> 2]
InitTabMove ==
    LET page == Screen(TabMovePage, MaxHistory)
        withMargin == setLeftRightMargin(setMode(page, "LeftRightMargin", TRUE), 3, 9)
    IN  \/ Start(page, MaxStepsTabMove)
        \/ Start(withMargin, MaxStepsTabMove)
        \/ Start(setMode(withMargin, "Origin", TRUE), MaxStepsTabMove)
NextTabMove ==
    \/ MoveCursorTo
    \/ HorizontalTabSet
    \/ ClearTabUnderCursor
    \/ ClearAllTabs
    \/ MoveCursorToNextTab
    \/ CursorBackwardTab
    \/ RequestTabStops
SpecTabMove == InitTabMove /\ [][NextTabMove]_vars

\* The columns of the tab stops: the explicit stops when there are any, else
\* the implicit ones every tab width columns.
TabStops ==
    IF tabs_ # << >> THEN {tabs_[i] : i \in 1..Len(tabs_)}
    ELSE {c \in 2..size_.width : (c - 1) % tabWidth_ = 0}

\* C33: HT moves the cursor right to the nearest tab stop strictly after the
\* current column; when there is none it moves to the right margin, and from
\* the right margin to the left margin of the next line (on the last page line
\* the row may stay).  HT never moves the cursor outside the page and never
\* changes a cell.  Nothing is required of the target while the cursor is
\* right of the right margin, and a stop beyond the right margin may be cut to
\* the margin.
C33_NextTab ==
    [][lastOp'.name = "moveCursorToNextTab" =>
          LET row == cursor_.position.row
              col == cursor_.position.column
              next == {c \in TabStops : c > col}
              stop == CHOOSE c \in next : \A d \in next : c <= d
          IN  /\ grids_' = grids_
              /\ InPage(Cur, cursor_'.position.row, cursor_'.position.column)
              /\ col <= margin_.right =>
                    IF next # {}
                    THEN /\ cursor_'.position.row = row
                         /\ cursor_'.position.column \in {stop, Min(stop, margin_.right)}
                    ELSE IF col < margin_.right
                    THEN /\ cursor_'.position.row = row
                         /\ cursor_'.position.column = margin_.right
                    ELSE /\ cursor_'.position.column = margin_.left
                         /\ cursor_'.position.row \in {Min(row + 1, size_.height), row + 1}
      ]_vars

\* C34: CBT(n) moves the cursor to the n-th tab stop strictly before the
\* current column, or to the first column of the line (of the page, or the
\* left margin) when fewer than n stops precede it; the row is unchanged,
\* CBT(0) is a no-op, and for n >= 1 from any column other than the first the
\* cursor moves strictly left; the stops are the explicit ones, or the
\* implicit ones at the same columns.
RECURSIVE NthBefore(_, _, _)
NthBefore(stops, col, n) ==
    LET before == {c \in stops : c < col}
        prev == CHOOSE c \in before : \A d \in before : d <= c
    IN  IF before = {} THEN 0
        ELSE IF n = 1 THEN prev
        ELSE NthBefore(stops, prev, n - 1)

C34_BackwardTab ==
    [][lastOp'.name = "cursorBackwardTab" =>
          LET n == lastOp'.args[1]
              col == cursor_.position.column
              target == NthBefore(TabStops, col, n)
          IN  IF n = 0 THEN cursor_' = cursor_
              ELSE /\ cursor_'.position.row = cursor_.position.row
                   /\ col > 1 => cursor_'.position.column < col
                   /\ IF target # 0 THEN cursor_'.position.column = target
                      ELSE cursor_'.position.column \in {1, Min(col, margin_.left)}
      ]_vars

(***************************************************************************)
(* DECCRA: copyArea on a written page of 3 lines and 3 columns.            *)
(***************************************************************************)
\* copyArea(): the cells are copied one by one, the columns from the right
\* when the target is right of the source and the lines from the bottom when
\* it is below.  A cell outside the page is not read and not stored (see
\* CopyArea for the other outcome).
copyArea(s, top, left, bottom, right, page, targetTop, targetLeft, targetPage) ==
    LET h == bottom - top + 1
        w == right - left + 1
        x(k) == IF targetLeft > left THEN w - 1 - (k % w) ELSE k % w
        y(k) == IF targetTop > top THEN h - 1 - (k \div w) ELSE k \div w
        RECURSIVE copy(_, _)
        copy(s1, k) ==
            IF k = h * w THEN s1
            ELSE copy(IF /\ InPage(s1, top + y(k), left + x(k))
                         /\ InPage(s1, targetTop + y(k), targetLeft + x(k))
                      THEN [s1 EXCEPT !.grids[activeGrid(s1)]
                                       .page[targetTop + y(k)].cells[targetLeft + x(k)] =
                                          at(s1, top + y(k), left + x(k))]
                      ELSE s1,
                      k + 1)
    IN  IF bottom < top \/ right < left THEN s
        ELSE IF top = targetTop /\ left = targetLeft THEN s
        ELSE updateCursorIterators(copy(s, 0))

MaxStepsCopy == 1
CopyPage == [width |-> 3, height |-> 3]
\* DECCRA with the source corners and the target position in the page.  When
\* the target rectangle reaches beyond the page, at() is called with a
\* position outside the page, which is undefined: the stores beyond the page
\* are lost, or the program stops at the first of them.
CopyArea ==
    \E top \in Rows, left \in Columns, bottom \in Rows, right \in Columns,
       targetTop \in Rows, targetLeft \in Columns, page \in {0, 1} :
        \/ Apply(copyArea(Cur, top, left, bottom, right, page, targetTop, targetLeft, page),
                 "copyArea", <<top, left, bottom, right, page, targetTop, targetLeft, page>>)
        \/ /\ bottom >= top /\ right >= left
           /\ \/ targetTop + (bottom - top) > size_.height
              \/ targetLeft + (right - left) > size_.width
           /\ StoreMembers(Cur, "copyArea",
                           <<top, left, bottom, right, page, targetTop, targetLeft, page>>)
           /\ steps' = 0
           /\ UNCHANGED <<modeLog, inputQueue, inputLog>>
InitCopy ==
    LET RECURSIVE written(_, _, _)
        written(s, k, period) ==
            IF k = 0 THEN s
            ELSE written(writeText(s, IF k % period = 0 THEN "a" ELSE "b"), k - 1, period)
    IN  \E period \in {2, 4} :
            Start(written(Screen(CopyPage, MaxHistory), CopyPage.width * CopyPage.height,
                          period),
                  MaxStepsCopy)
NextCopy == CopyArea
SpecCopy == InitCopy /\ [][NextCopy]_vars

\* C35: DECCRA with the source rectangle and the target position in the page
\* copies as from a snapshot: every cell of the target rectangle holds the
\* value its source cell had before, every other cell is unchanged, also when
\* source and target overlap; a rectangle with bottom < top or right < left
\* changes nothing, and the page arguments have no effect.
C35_CopyArea ==
    [][lastOp'.name = "copyArea" =>
          LET a == lastOp'.args
              act == activeGrid(Cur)
              dy == a[6] - a[1]
              dx == a[7] - a[2]
              valid == a[3] >= a[1] /\ a[4] >= a[2]
              inTarget(r, c) == /\ r - dy >= a[1] /\ r - dy <= a[3]
                                /\ c - dx >= a[2] /\ c - dx <= a[4]
              old(r, c) == grids_[act].page[r].cells[c]
              new(r, c) == grids_'[act].page[r].cells[c]
          IN  /\ cursor_' = cursor_
              /\ \A r \in 1..size_.height, c \in 1..size_.width :
                    new(r, c) = IF valid /\ inTarget(r, c) THEN old(r - dy, c - dx)
                                ELSE old(r, c)
      ]_vars

\* C36: a linefeed with the cursor on the last page line and below the bottom
\* margin does not scroll: the page cells and the history of both grids are
\* unchanged and the cursor stays on the last line.
C36_LinefeedBelowMargin ==
    [][(/\ lastOp'.name = "linefeed"
        /\ cursor_.position.row = size_.height
        /\ cursor_.position.row > margin_.bottom) =>
          /\ grids_' = grids_
          /\ cursor_'.position.row = size_.height
      ]_vars

\* The columns DECTABSR lists: the explicit stops, else the implicit ones.
ReportedStops ==
    IF tabs_ # << >> THEN {tabs_[i] : i \in 1..Len(tabs_)}
    ELSE {c \in 1..size_.width : (c - 1) % tabWidth_ = 0}

\* C37: clearTabUnderCursor() removes only the stop at the cursor column:
\* every other column is a stop for HT, and is listed by DECTABSR, after it
\* iff it was before (also while the stops are still implicit); and after HTS
\* the cursor column holds a single stop.
C37_TabViewsAgree ==
    [][/\ lastOp'.name = "clearTabUnderCursor" =>
            \A c \in 1..size_.width :
                c # cursor_.position.column =>
                    /\ (c \in TabStops') = (c \in TabStops)
                    /\ (c \in ReportedStops') = (c \in ReportedStops)
       /\ lastOp'.name = "setTabUnderCursor" =>
            Cardinality({i \in 1..Len(tabs_') : tabs_'[i] = cursor_.position.column}) = 1
      ]_vars

(***************************************************************************)
(* Grid isolation: text, erase, scroll, index and insert / delete on one   *)
(* grid while the other is in the background, with DECALTBUF and DECSET    *)
(* 1049 switching between them.                                            *)
(***************************************************************************)
MaxStepsIsolation == 3
NextIsolation ==
    \/ WriteText({"a"})
    \/ MoveCursorTo
    \/ Linefeed
    \/ Index
    \/ ReverseIndex
    \/ ScrollUp
    \/ ScrollDown
    \/ InsertLines
    \/ DeleteLines
    \/ InsertCharacters
    \/ DeleteCharacters
    \/ ClearToEndOfScreen
    \/ ClearToBeginOfScreen
    \/ ClearToEndOfLine
    \/ ClearToBeginOfLine
    \/ ClearLine
    \/ EraseCharacters
    \/ SetMode({"UseAlternateScreen", "ExtendedAltScreen"})
InitIsolation ==
    LET RECURSIVE written(_, _)
        written(s, k) == IF k = 0 THEN s ELSE written(writeText(s, "b"), k - 1)
        page == written(Screen(EditPage, MaxHistory), EditPage.width * EditPage.height)
        withMargin == setLeftRightMargin(setMode(page, "LeftRightMargin", TRUE), 2, 4)
    IN  \/ Start(page, MaxStepsIsolation)
        \/ Start(setMode(withMargin, "Origin", TRUE), MaxStepsIsolation)
SpecIsolation == InitIsolation /\ [][NextIsolation]_vars

\* C38: a text write, erase, scroll, index, linefeed or insert / delete
\* operation changes neither the page nor the history of the grid that is in
\* the background; the grid changes only when it is active, so the primary
\* grid is found as it was left when the alternate grid is left again.
C38_GridsIsolated ==
    [][lastOp'.name \in {"writeText", "linefeed", "index", "reverseIndex", "scrollUp",
                         "scrollDown", "insertLines", "deleteLines", "insertCharacters",
                         "deleteCharacters", "clearToEndOfScreen", "clearToBeginOfScreen",
                         "clearToEndOfLine", "clearToBeginOfLine", "clearLine",
                         "eraseCharacters"} =>
          grids_'[backgroundGrid(Cur)] = grids_[backgroundGrid(Cur)]
      ]_vars

(***************************************************************************)
(* Margins and mode bits over DECSTBM, DECSLRM, DECSET / DECRST, XTSAVE /  *)
(* XTRESTORE, DECSC / DECRC, DECCOLM, DECALN, resize and the resets.       *)
(***************************************************************************)
MaxStepsState == 3
MaxMarginParam == 5
MarginParams == {None} \cup 1..MaxMarginParam
StateModeSets == {{"LeftRightMargin"}, {"AutoWrap", "Origin"}, {"UseAlternateScreen"}}
Decstbm ==
    \E t \in MarginParams, b \in MarginParams :
        Apply(setTopBottomMargin(Cur, t, b), "setTopBottomMargin", <<t, b>>)
Decslrm ==
    \E l \in MarginParams, r \in MarginParams :
        Apply(setLeftRightMargin(Cur, l, r), "setLeftRightMargin", <<l, r>>)
Xtsave == \E M \in StateModeSets : Apply(saveModes(Cur, M), "saveModes", <<M>>)
Xtrestore == \E M \in StateModeSets : Apply(restoreModes(Cur, M), "restoreModes", <<M>>)
SaveCursor == Apply(saveCursor(Cur), "saveCursor", << >>)
RestoreCursor == Apply(restoreCursor(Cur), "restoreCursor", << >>)
ScreenAlignmentPattern == Apply(screenAlignmentPattern(Cur), "screenAlignmentPattern", << >>)
InitState ==
    \/ Start(Screen(WrapPage, MaxHistory), MaxStepsState)
    \/ Start(WithLeftRightMargin(saveModes(Screen(WrapPage, MaxHistory),
                                           {"LeftRightMargin", "AutoWrap"})),
             MaxStepsState)
NextState ==
    \/ Decstbm
    \/ Decslrm
    \/ SetMode({"LeftRightMargin", "AutoWrap", "Origin", "UseAlternateScreen",
                "ExtendedAltScreen", "SaveCursor", "Columns132", "AllowColumns80to132"})
    \/ Xtsave
    \/ Xtrestore
    \/ SaveCursor
    \/ RestoreCursor
    \/ ScreenAlignmentPattern
    \/ Resize
    \/ ResetSoft
    \/ ResetHard
SpecState == InitState /\ [][NextState]_vars

\* C39: in every state the margins are well-formed and inside the page,
\* 1 <= top <= bottom <= lines and 1 <= left <= right <= columns, and while
\* DECLRMM is reset the horizontal margins span the full page width.
C39_MarginsWellFormed ==
    /\ 1 <= margin_.top /\ margin_.top <= margin_.bottom /\ margin_.bottom <= size_.height
    /\ 1 <= margin_.left /\ margin_.left <= margin_.right /\ margin_.right <= size_.width
    /\ ~isModeEnabled(Cur, "LeftRightMargin") =>
          margin_.left = 1 /\ margin_.right = size_.width

\* C40: in every state the DECAWM bit equals the cursor's auto-wrap flag, the
\* DECOM bit the cursor's origin-mode flag, and the bit of mode 47 says
\* whether the alternate grid is active.
C40_ModeBitsAgree ==
    /\ isModeEnabled(Cur, "AutoWrap") = cursor_.autoWrap
    /\ isModeEnabled(Cur, "Origin") = cursor_.originMode
    /\ isModeEnabled(Cur, "UseAlternateScreen") = (screenType_ = "Alternate")

====
